---- MODULE Spec2Model ----
(***************************************************************************)
(* QRBrandr: the single-QR generator (src/src/App.tsx), its logo           *)
(* placement geometry, and the batch generator (src/unnamed/part_000).     *)
(*                                                                         *)
(* Five specifications share the module:                                   *)
(*   Spec      the App component: option edits, generations, logo loads,   *)
(*             downloads, on the browser's single-threaded event loop;     *)
(*   SpecGeom  the placement computations of the raster and the vector     *)
(*             path, applied to inputs drawn from bounded sets;            *)
(*   SpecBatch the BatchGenerator component: the collection and            *)
(*             downloadBatch;                                              *)
(*   SpecCsv   handleCSVUpload applied once to files written from known    *)
(*             rows;                                                       *)
(*   SpecLive  either component under the event loop's scheduling.         *)
(*                                                                         *)
(* Lengths are exact rationals, held as integers in units of 1/1000 of a   *)
(* pixel (the code computes them in IEEE doubles; rounding in the last     *)
(* place is not modelled).  Payloads are sequences of characters.          *)
(***************************************************************************)
EXTENDS Integers, Sequences, FiniteSets, TLC

VARIABLES
    \* ---- App.tsx state (useState / useRef)
    options,        \* QROptions                                   (App.tsx:36)
    qrDataUrl,      \* published raster artifact, '' = EmptyUrl    (App.tsx:45)
    qrSvgString,    \* published vector base, '' = NoBase          (App.tsx:46)
    isGenerating,   \* generation-in-progress flag                 (App.tsx:47)
    autoGenerate,   \*                                             (App.tsx:48)
    selectedFormat, \* 'png' | 'svg' | 'pdf'                       (App.tsx:49)
    isDarkMode,     \*                                             (App.tsx:50)
    canvas,         \* the drawing surface behind canvasRef        (App.tsx:55)
    surface,        \* what canvasRef.current and getContext('2d') give
    \* ---- control state of the App's asynchronous code
    gen,            \* the running generateQRCode call: position and closure
    logoLoads,      \* img.onload callbacks of generations, not yet fired
    svgLoads,       \* img.onload callbacks of svg downloads, not yet fired
    genCount,       \* generateQRCode calls so far that passed the blank check
    steps,          \* user events so far
    \* ---- observations of the App
    lastPublish,    \* the latest setQrDataUrl call
    lastSave,       \* the latest file save (link.click / pdf.save)
    errors,         \* console.error calls so far (capped)
    \* ---- placement computations (SpecGeom)
    geomIn,         \* the inputs of the latest placement computation
    geomOut,        \* what the path drew / emitted
    \* ---- BatchGenerator state (part_000)
    batchItems,           \* BatchItem[]                          (part_000:25)
    batchSelectedFormat,  \* selectedFormat of BatchGenerator     (part_000:30)
    batchIsGenerating,    \* isGenerating of BatchGenerator       (part_000:31)
    \* ---- control state of downloadBatch
    batch,          \* the running downloadBatch call: position, validItems, i
    doc,            \* the jsPDF document under construction: its pages
    currentPage,    \* let currentPage of the pdf-grid case       (part_000:182)
    now,            \* Date.now()
    bsteps,         \* user events of the BatchGenerator so far
    \* ---- observations of the BatchGenerator
    batchSaves,     \* files saved so far (link.click / pdf.save), in order
    batchErrors,    \* console.error calls of downloadBatch so far (capped)
    \* ---- observations of both components
    imported,       \* the text of the latest file read by handleCSVUpload
    dropped,        \* failures that reached no handler, so far
    \* ---- import runs (SpecCsv)
    csvCase         \* the rows and the layout the imported file was written from

appVars  == <<options, qrDataUrl, qrSvgString, isGenerating, autoGenerate,
              selectedFormat, isDarkMode, canvas, surface, gen, logoLoads,
              svgLoads, genCount, steps, lastPublish, lastSave, errors>>
geomVars == <<geomIn, geomOut>>
batchVars == <<batchItems, batchSelectedFormat, batchIsGenerating, batch, doc,
               currentPage, now, bsteps, batchSaves, batchErrors>>
obsVars  == <<imported, dropped, csvCase>>
vars     == <<appVars, geomVars, batchVars, obsVars>>

-----------------------------------------------------------------------------
(* Bounds of the model *)

\* user events (edits, toggles, clicks) in one behaviour of Spec
MaxSteps == 3
\* console.error calls counted
MaxErrors == 2
\* scaled-down capacity of the external encoder, in characters, at the four
\* error-correction levels, from the weakest to the strongest
CapacityL == 60
CapacityM == 57
CapacityQ == 54
CapacityH == 50
\* user events (edits, imports, clicks) in one behaviour of SpecBatch
MaxBatchSteps == 3
\* data lines of the largest imported file
MaxCsvRows == 13
\* the clock's first and last reading, in ms
ClockStart == 1000
ClockEnd == 1001

(* Program constants *)

SizeMin == 100
SizeMax == 400
SizeStep == 10
LogoSizeMin == 10
LogoSizeMax == 30
DefaultSize == 300
DefaultLogoSize == 20

-----------------------------------------------------------------------------
(* Values *)

NoFile     == "null"

LogoFile   == "logo.png"
ECLevels   == {"L", "M", "Q", "H"}
Shapes     == {"square", "rounded"}
Formats    == {"png", "svg", "pdf"}

\* 'https://example.com'
ExampleUrl == <<"h", "t", "t", "p", "s", ":", "/", "/", "e", "x", "a", "m", "p", "l", "e", ".", "c", "o", "m">>

RECURSIVE Fill(_)
Fill(n) == IF n = 0 THEN <<>> ELSE <<"a">> \o Fill(n - 1)

\* a payload of white space only: space, form feed, no-break space
BlankPayload == <<" ", "\f", " ">>

\* a payload that exceeds the encoder's capacity at level H, not at level L
LongPayload == Fill(CapacityH + 1)

\* payloads typed into the textarea: empty, whitespace-only, the default, long
Payloads   == { <<>>, BlankPayload, ExampleUrl, LongPayload }
AppSizes   == {DefaultSize, SizeMax}
AppLogoSizes == {DefaultLogoSize, LogoSizeMax}

\* the white space and line terminators that String.prototype.trim removes,
\* as far as a string of this module can hold them: tab, line feed, vertical
\* tab (U+000B), form feed, carriage return, space and no-break space
\* (U+00A0); the ones beyond U+00FF (U+1680, U+2000..U+200A, U+2028, U+2029,
\* U+202F, U+205F, U+3000, U+FEFF) cannot be written here
WhiteSpace == {"\t", "\n", "", "\f", "\r", " ", " "}

RECURSIVE TrimLeft(_)
TrimLeft(s) ==
    IF s # <<>> /\ Head(s) \in WhiteSpace THEN TrimLeft(Tail(s)) ELSE s

RECURSIVE TrimRight(_)
TrimRight(s) ==
    IF s # <<>> /\ s[Len(s)] \in WhiteSpace
    THEN TrimRight(SubSeq(s, 1, Len(s) - 1)) ELSE s

\* String.prototype.trim
Trim(s) == TrimRight(TrimLeft(s))

IsBlankNever(text) == FALSE

\* !text.trim()
IsBlank(text) == Trim(text) = <<>>

\* isDarkMode ? '#ffffff' : '#000000'
DarkColor(dark) == IF dark THEN "#ffffff" ELSE "#000000"
\* isDarkMode ? '#1f2937' : '#ffffff'
LightColor(dark) == IF dark THEN "#1f2937" ELSE "#ffffff"

\* The external encoder: rejects a payload that is empty or exceeds the
\* capacity of the error-correction level.
Capacity(ecl) ==
    CASE ecl = "L" -> CapacityL
      [] ecl = "M" -> CapacityM
      [] ecl = "Q" -> CapacityQ
      [] ecl = "H" -> CapacityH
EncoderRejects(text, ecl) == Len(text) = 0 \/ Len(text) > Capacity(ecl)

-----------------------------------------------------------------------------
(* Logo placement: generateQRCode's img.onload (raster) and the svg case   *)
(* of downloadQRCode (vector).  Every length below is in 1/1000 px; with   *)
(* integer size and percentage every quotient the code forms is exact in   *)
(* these units.                                                            *)

\* a length of n pixels
Px(n) == n * 1000

\* mutant of LogoSizePixels: the padding of both sides counted into the logo
LogoSizePixelsPadded(size, logoSize) ==
    (Px(size) * logoSize) \div 100 + 2 * ((Px(size) * logoSize) \div 1000)

\* const logoSizePixels = (options.size * options.logoSize) / 100
LogoSizePixels(size, logoSize) == (Px(size) * logoSize) \div 100

\* mutant of LogoOrigin: the origin rounded down to a whole pixel
LogoOriginFloored(size, lsp) == Px((Px(size) - lsp) \div 2000)

\* const x = (options.size - logoSizePixels) / 2   (and y, the same expression)
LogoOrigin(size, lsp) == (Px(size) - lsp) \div 2

\* mutant of LogoPadding: no padding around the logo
LogoPaddingNone(lsp) == 0

\* const padding = logoSizePixels * 0.1
LogoPadding(lsp) == lsp \div 10

\* one call on the 2d context
Op(name, a, b, c, d, color) ==
    [op |-> name, a |-> a, b |-> b, c |-> c, d |-> d, color |-> color]

\* whether the path clips the logo: options.logoShape === 'rounded'
ClipsLogo(shape) == shape = "rounded"

\* mutant of RasterClipRadius: the diameter passed as the radius
RasterClipDiameter(lsp) == lsp

\* radius of the raster clip circle: logoSizePixels / 2
RasterClipRadius(lsp) == lsp \div 2

RasterOverlayNoRestore(size, logoSize, shape, dark) ==
    LET lsp     == LogoSizePixels(size, logoSize)
        x       == LogoOrigin(size, lsp)
        y       == LogoOrigin(size, lsp)
        padding == LogoPadding(lsp)
        radius  == (lsp + padding * 2) \div 2
    IN  IF ClipsLogo(shape)
        THEN << Op("fillStyle", 0, 0, 0, 0, LightColor(dark)),
                Op("beginPath", 0, 0, 0, 0, ""),
                Op("arc", x - padding + radius, y - padding + radius, radius, 0, ""),
                Op("fill", 0, 0, 0, 0, ""),
                Op("save", 0, 0, 0, 0, ""),
                Op("beginPath", 0, 0, 0, 0, ""),
                Op("arc", x + lsp \div 2, y + lsp \div 2, RasterClipRadius(lsp), 0, ""),
                Op("clip", 0, 0, 0, 0, ""),
                Op("drawImage", x, y, lsp, lsp, "") >>
        ELSE << Op("fillStyle", 0, 0, 0, 0, LightColor(dark)),
                Op("fillRect", x - padding, y - padding,
                               lsp + padding * 2, lsp + padding * 2, ""),
                Op("drawImage", x, y, lsp, lsp, "") >>

\* the calls img.onload makes on ctx, in order (App.tsx:116-150)
RasterOverlay(size, logoSize, shape, dark) ==
    LET lsp     == LogoSizePixels(size, logoSize)
        x       == LogoOrigin(size, lsp)
        y       == LogoOrigin(size, lsp)
        padding == LogoPadding(lsp)
        radius  == (lsp + padding * 2) \div 2
        centerX == x - padding + radius
        centerY == y - padding + radius
    IN  IF ClipsLogo(shape)
        THEN << Op("fillStyle", 0, 0, 0, 0, LightColor(dark)),
                Op("beginPath", 0, 0, 0, 0, ""),
                Op("arc", centerX, centerY, radius, 0, ""),
                Op("fill", 0, 0, 0, 0, ""),
                Op("save", 0, 0, 0, 0, ""),
                Op("beginPath", 0, 0, 0, 0, ""),
                Op("arc", x + lsp \div 2, y + lsp \div 2, RasterClipRadius(lsp), 0, ""),
                Op("clip", 0, 0, 0, 0, ""),
                Op("drawImage", x, y, lsp, lsp, ""),
                Op("restore", 0, 0, 0, 0, "") >>
        ELSE << Op("fillStyle", 0, 0, 0, 0, LightColor(dark)),
                Op("fillRect", x - padding, y - padding,
                               lsp + padding * 2, lsp + padding * 2, ""),
                Op("drawImage", x, y, lsp, lsp, "") >>

\* one element of the vector markup; clip is the image's clip-path attribute
\* or the clipPath's id
El(tag, a, b, c, d, fill, clip) ==
    [tag |-> tag, a |-> a, b |-> b, c |-> c, d |-> d, fill |-> fill, clip |-> clip]

VectorBackgroundAtCorner(size, logoSize, shape, dark) ==
    LET logo    == LogoSizePixels(size, logoSize)
        x       == LogoOrigin(size, logo)
        y       == LogoOrigin(size, logo)
        padding == LogoPadding(logo)
    IN  IF shape = "rounded"
        THEN El("circle", x - padding, y - padding,
                          (logo + padding * 2) \div 2, 0, LightColor(dark), "")
        ELSE El("rect", x, y, logo + padding * 2, logo + padding * 2,
                        LightColor(dark), "")

\* backgroundRect (App.tsx:224-226)
VectorBackground(size, logoSize, shape, dark) ==
    LET logo    == LogoSizePixels(size, logoSize)
        x       == LogoOrigin(size, logo)
        y       == LogoOrigin(size, logo)
        padding == LogoPadding(logo)
    IN  IF shape = "rounded"
        THEN El("circle", x + logo \div 2, y + logo \div 2,
                          (logo + padding * 2) \div 2, 0, LightColor(dark), "")
        ELSE El("rect", x - padding, y - padding,
                        logo + padding * 2, logo + padding * 2, LightColor(dark), "")

\* logoElement (App.tsx:228-230): <defs><clipPath><circle/></clipPath></defs><image/>
\* or a bare <image/>
VectorLogo(size, logoSize, shape) ==
    LET logo == LogoSizePixels(size, logoSize)
        x    == LogoOrigin(size, logo)
        y    == LogoOrigin(size, logo)
    IN  IF shape = "rounded"
        THEN << El("clipPath", x + logo \div 2, y + logo \div 2, logo \div 2, 0,
                               "", "logoClip"),
                El("image", x, y, logo, logo, "", "url(#logoClip)") >>
        ELSE << El("image", x, y, logo, logo, "", "") >>

\* the elements the svg case inserts before </svg>, in order:
\* `${backgroundRect}${logoElement}`
VectorOverlay(size, logoSize, shape, dark) ==
    <<VectorBackground(size, logoSize, shape, dark)>> \o VectorLogo(size, logoSize, shape)

-----------------------------------------------------------------------------
(* App.tsx: state after construction *)

\* useState<QROptions>({...}) (App.tsx:36-43)
InitOptions ==
    [ text                 |-> ExampleUrl,
      size                 |-> DefaultSize,
      errorCorrectionLevel |-> "H",
      logoSize             |-> DefaultLogoSize,
      logoFile             |-> NoFile,
      logoShape            |-> "rounded" ]

\* a base QR rendering that was never made
NoBase == [gen |-> 0, text |-> <<>>, width |-> 0, ecl |-> "", dark |-> "", light |-> ""]

\* '' as the value of qrDataUrl
EmptyUrl == [width |-> 0, height |-> 0, base |-> NoBase, ops |-> <<>>, painters |-> <<>>]

\* a fresh <canvas>: 300 x 150, blank
FreshCanvas == [width |-> 300, height |-> 150, base |-> NoBase, ops |-> <<>>, painters |-> <<>>]

\* what generateQRCode finds behind canvasRef: the element with its 2d
\* context, no element (canvasRef.current is null), or an element whose
\* getContext('2d') returns null
Surfaces == {"2d", "no-canvas", "no-context"}

\* the closure of one generateQRCode call: useCallback(..., [options, isDarkMode])
Request(id, opts, dark) == [id |-> id, opts |-> opts, dark |-> dark]

NoRequest == Request(0, InitOptions, FALSE)

GenAt(pc, ok, req) == [pc |-> pc, ok |-> ok, req |-> req]

NoPublish == [gen |-> 0, hasLogo |-> FALSE, inOnload |-> FALSE, flag |-> FALSE,
              composited |-> FALSE]

NoSave == [fmt |-> "none", png |-> EmptyUrl, svg |-> NoBase, els |-> <<>>,
           text |-> <<>>, opts |-> InitOptions, dark |-> FALSE, sync |-> FALSE,
           dl |-> 0, doc |-> <<>>]

AppInit ==
    /\ options = InitOptions
    /\ qrDataUrl = EmptyUrl
    /\ qrSvgString = NoBase
    /\ isGenerating = FALSE
    /\ autoGenerate = TRUE
    /\ selectedFormat = "png"
    /\ isDarkMode \in BOOLEAN
    /\ canvas = FreshCanvas
    /\ surface \in Surfaces
    /\ gen = GenAt("mount", TRUE, NoRequest)
    /\ logoLoads = {}
    /\ svgLoads = {}
    /\ genCount = 0
    /\ steps = 0
    /\ lastPublish = NoPublish
    /\ lastSave = NoSave
    /\ errors = 0

\* the App does not run in SpecGeom and SpecBatch
AppIdle ==
    /\ options = InitOptions
    /\ qrDataUrl = EmptyUrl
    /\ qrSvgString = NoBase
    /\ isGenerating = FALSE
    /\ autoGenerate = TRUE
    /\ selectedFormat = "png"
    /\ isDarkMode = FALSE
    /\ canvas = FreshCanvas
    /\ surface = "2d"
    /\ gen = GenAt("idle", TRUE, NoRequest)
    /\ logoLoads = {}
    /\ svgLoads = {}
    /\ genCount = 0
    /\ steps = 0
    /\ lastPublish = NoPublish
    /\ lastSave = NoSave
    /\ errors = 0

GeomIdle ==
    /\ geomIn = [path |-> "none", size |-> 0, logoSize |-> 0, shape |-> "", dark |-> FALSE]
    /\ geomOut = <<>>

-----------------------------------------------------------------------------
(* generateQRCode (App.tsx:72-164) *)

\* a step of the App leaves the other components alone
AppOnly == UNCHANGED <<surface, geomVars, batchVars, obsVars>>

\* QRCode.toCanvas / QRCode.toString output for one request
Rendering(req) ==
    [ gen   |-> req.id,
      text  |-> req.opts.text,
      width |-> req.opts.size,
      ecl   |-> req.opts.errorCorrectionLevel,
      dark  |-> DarkColor(req.dark),
      light |-> LightColor(req.dark) ]

\* canvas.width = options.size; canvas.height = options.size: resizing clears
ResizedCanvas(size) ==
    [width |-> size, height |-> size, base |-> NoBase, ops |-> <<>>, painters |-> <<>>]

\* mutant of HasLogo: the canvas is published without waiting for the logo
HasLogoIgnored(opts) == FALSE

\* if (options.logoFile): the artifact waits for img.onload
HasLogo(opts) == opts.logoFile # NoFile

\* the part of generateQRCode that runs within the caller's task: the blank
\* check, setIsGenerating(true), the resize, and the encoder call that
\* QRCode.toCanvas makes before it returns its promise (App.tsx:73-97)
GenerateCall(opts, dark) ==
    IF IsBlank(opts.text)
    THEN /\ gen' = GenAt("idle", TRUE, NoRequest)
         /\ UNCHANGED <<isGenerating, canvas, genCount>>
    ELSE IF surface # "2d"
    THEN \* if (!canvas) return; if (!ctx) return: inside the try, so the
         \* finally block is what runs next (App.tsx:79, 82)
         /\ isGenerating' = TRUE
         /\ gen' = GenAt("finally", TRUE, NoRequest)
         /\ UNCHANGED <<canvas, genCount>>
    ELSE LET req == Request(genCount + 1, opts, dark)
             ok  == ~EncoderRejects(opts.text, opts.errorCorrectionLevel)
         IN  /\ isGenerating' = TRUE
             /\ genCount' = genCount + 1
             /\ canvas' = IF ok
                          THEN [ResizedCanvas(opts.size) EXCEPT !.base = Rendering(req)]
                          ELSE ResizedCanvas(opts.size)
             /\ gen' = GenAt("toCanvas", ok, req)

\* useEffect(() => { if (autoGenerate) generateQRCode() }, [generateQRCode, autoGenerate])
\* (App.tsx:166-170), run after a render that changed options, isDarkMode or
\* autoGenerate
AutoGenerateEffect(opts, dark, auto) ==
    IF auto
    THEN GenerateCall(opts, dark)
    ELSE /\ gen' = GenAt("idle", TRUE, NoRequest)
         /\ UNCHANGED <<isGenerating, canvas, genCount>>

\* the effect's first run, after mount
MountEffect ==
    /\ AppOnly
    /\ gen.pc = "mount"
    /\ AutoGenerateEffect(options, isDarkMode, autoGenerate)
    /\ UNCHANGED <<options, qrDataUrl, qrSvgString, autoGenerate, selectedFormat,
                   isDarkMode, logoLoads, svgLoads, steps, lastPublish, lastSave,
                   errors>>

GenAfterToCanvasSwallows ==
    /\ AppOnly
    /\ gen.pc = "toCanvas"
    /\ gen' = [gen EXCEPT !.pc = "toString"]
    /\ UNCHANGED <<options, qrDataUrl, qrSvgString, isGenerating, autoGenerate,
                   selectedFormat, isDarkMode, canvas, logoLoads, svgLoads,
                   genCount, steps, lastPublish, lastSave, errors>>

\* continuation of `await QRCode.toCanvas(...)`: on rejection the catch block
\* (App.tsx:159-160); otherwise QRCode.toString is called (App.tsx:100-109)
GenAfterToCanvas ==
    /\ AppOnly
    /\ gen.pc = "toCanvas"
    /\ IF gen.ok
       THEN /\ gen' = [gen EXCEPT !.pc = "toString"]
            /\ UNCHANGED errors
       ELSE /\ gen' = [gen EXCEPT !.pc = "finally"]
            /\ errors' = IF errors < MaxErrors THEN errors + 1 ELSE errors
    /\ UNCHANGED <<options, qrDataUrl, qrSvgString, isGenerating, autoGenerate,
                   selectedFormat, isDarkMode, canvas, logoLoads, svgLoads,
                   genCount, steps, lastPublish, lastSave>>

\* the setQrDataUrl call of a generation
Published(req, inOnload, flag, snapshot) ==
    [ gen        |-> req.id,
      hasLogo    |-> req.opts.logoFile # NoFile,
      inOnload   |-> inOnload,
      flag       |-> flag,
      composited |-> req.id \in {snapshot.painters[i] : i \in 1..Len(snapshot.painters)} ]

\* continuation of `await QRCode.toString(...)`: setQrSvgString, then either
\* img.onload is installed and the load started, or the canvas is published
\* (App.tsx:110-158)
GenAfterToString ==
    /\ AppOnly
    /\ gen.pc = "toString"
    /\ qrSvgString' = Rendering(gen.req)
    /\ IF HasLogo(gen.req.opts)
       THEN /\ logoLoads' = logoLoads \cup {gen.req}
            /\ UNCHANGED <<qrDataUrl, lastPublish>>
       ELSE /\ qrDataUrl' = canvas
            /\ lastPublish' = Published(gen.req, FALSE, isGenerating, canvas)
            /\ UNCHANGED logoLoads
    /\ gen' = [gen EXCEPT !.pc = "finally"]
    /\ UNCHANGED <<options, isGenerating, autoGenerate, selectedFormat, isDarkMode,
                   canvas, svgLoads, genCount, steps, lastSave, errors>>

\* finally { setIsGenerating(false) } (App.tsx:161-163)
GenFinallyKeepsFlag ==
    /\ AppOnly
    /\ gen.pc = "finally"
    /\ gen' = GenAt("idle", TRUE, NoRequest)
    /\ UNCHANGED <<options, qrDataUrl, qrSvgString, isGenerating, autoGenerate,
                   selectedFormat, isDarkMode, canvas, logoLoads, svgLoads,
                   genCount, steps, lastPublish, lastSave, errors>>

\* finally { setIsGenerating(false) } (App.tsx:161-163)
GenFinally ==
    /\ AppOnly
    /\ gen.pc = "finally"
    /\ isGenerating' = FALSE
    /\ gen' = GenAt("idle", TRUE, NoRequest)
    /\ UNCHANGED <<options, qrDataUrl, qrSvgString, autoGenerate, selectedFormat,
                   isDarkMode, canvas, logoLoads, svgLoads, genCount, steps,
                   lastPublish, lastSave, errors>>

\* whether the logo file decodes
DecodesAnything(file) == TRUE

\* whether the browser decodes the file, so that img.onload fires
Decodes(file) == file = LogoFile

\* a failure that no handler saw: an error event on an img without onerror
\* (of generation or download number n), or an exception thrown in
\* reader.onload
Dropped(kind, n) == [kind |-> kind, n |-> n]

\* img.onload of generation r (App.tsx:115-154): composite, then publish
LogoOnload(r) ==
    /\ AppOnly
    /\ gen.pc = "idle"
    /\ r \in logoLoads
    /\ Decodes(r.opts.logoFile)
    /\ LET drawn == [canvas EXCEPT
                        !.ops = @ \o RasterOverlay(r.opts.size, r.opts.logoSize,
                                                   r.opts.logoShape, r.dark),
                        !.painters = Append(@, r.id)]
       IN  /\ canvas' = drawn
           /\ qrDataUrl' = drawn
           /\ lastPublish' = Published(r, TRUE, isGenerating, drawn)
    /\ logoLoads' = logoLoads \ {r}
    /\ UNCHANGED <<options, qrSvgString, isGenerating, autoGenerate, selectedFormat,
                   isDarkMode, gen, svgLoads, genCount, steps, lastSave, errors>>

\* the image fails to decode: img has no onerror, nothing runs
LogoError(r) ==
    /\ UNCHANGED <<surface, geomVars, batchVars, imported, csvCase>>
    /\ dropped' = dropped \cup {Dropped("logo-load", r.id)}
    /\ gen.pc = "idle"
    /\ r \in logoLoads
    /\ ~Decodes(r.opts.logoFile)
    /\ logoLoads' = logoLoads \ {r}
    /\ UNCHANGED <<options, qrDataUrl, qrSvgString, isGenerating, autoGenerate,
                   selectedFormat, isDarkMode, canvas, gen, svgLoads, genCount,
                   steps, lastPublish, lastSave, errors>>

-----------------------------------------------------------------------------
(* User events of the App.  Each runs as one task of the event loop, so only *)
(* when no generateQRCode call is between its awaits (gen.pc = "idle").     *)

UserEvent ==
    /\ gen.pc = "idle"
    /\ steps < MaxSteps
    /\ steps' = steps + 1

\* setOptions(prev => ({...prev, field: value})), the re-render, and the
\* effect that the new generateQRCode identity triggers
SetOptions(newOpts) ==
    /\ AppOnly
    /\ UserEvent
    /\ options' = newOpts
    /\ AutoGenerateEffect(newOpts, isDarkMode, autoGenerate)
    /\ UNCHANGED <<qrDataUrl, qrSvgString, autoGenerate, selectedFormat, isDarkMode,
                   logoLoads, svgLoads, lastPublish, lastSave, errors>>

\* textarea onChange (App.tsx:346)
SetText(t) ==
    /\ t # options.text
    /\ SetOptions([options EXCEPT !.text = t])

\* size slider onChange (App.tsx:363)
SetSize(n) ==
    /\ n # options.size
    /\ SetOptions([options EXCEPT !.size = n])

\* error-correction select onChange (App.tsx:379-382)
SetErrorCorrectionLevel(e) ==
    /\ e # options.errorCorrectionLevel
    /\ SetOptions([options EXCEPT !.errorCorrectionLevel = e])

\* shape buttons, rendered only with a logo (App.tsx:472, 487)
SetLogoShape(sh) ==
    /\ options.logoFile # NoFile
    /\ SetOptions([options EXCEPT !.logoShape = sh])

\* logo size slider, rendered only with a logo (App.tsx:472, 516)
SetLogoSize(n) ==
    /\ options.logoFile # NoFile
    /\ n # options.logoSize
    /\ SetOptions([options EXCEPT !.logoSize = n])

\* files the user may pick: an image, an image that does not decode, a text file
Files == {LogoFile, "broken.png", "notes.txt"}

\* file.type.startsWith('image/')
IsImageType(f) == f \in {LogoFile, "broken.png"}

\* handleFileUpload (App.tsx:176-181)
HandleFileUpload(f) ==
    /\ IF IsImageType(f)
       THEN SetOptions([options EXCEPT !.logoFile = f])
       ELSE /\ gen.pc = "idle"
            /\ UNCHANGED vars

\* clearLogo (App.tsx:294-299); its button is rendered only with a logo
ClearLogo ==
    /\ options.logoFile # NoFile
    /\ SetOptions([options EXCEPT !.logoFile = NoFile])

\* toggleTheme (App.tsx:68-70)
ToggleTheme ==
    /\ AppOnly
    /\ UserEvent
    /\ isDarkMode' = ~isDarkMode
    /\ AutoGenerateEffect(options, ~isDarkMode, autoGenerate)
    /\ UNCHANGED <<options, qrDataUrl, qrSvgString, autoGenerate, selectedFormat,
                   logoLoads, svgLoads, lastPublish, lastSave, errors>>

\* auto-generate checkbox onChange (App.tsx:402)
SetAutoGenerate ==
    /\ AppOnly
    /\ UserEvent
    /\ autoGenerate' = ~autoGenerate
    /\ AutoGenerateEffect(options, isDarkMode, ~autoGenerate)
    /\ UNCHANGED <<options, qrDataUrl, qrSvgString, selectedFormat, isDarkMode,
                   logoLoads, svgLoads, lastPublish, lastSave, errors>>

\* export format buttons (App.tsx:563)
SetSelectedFormat(f) ==
    /\ AppOnly
    /\ UserEvent
    /\ f # selectedFormat
    /\ selectedFormat' = f
    /\ UNCHANGED <<options, qrDataUrl, qrSvgString, isGenerating, autoGenerate,
                   isDarkMode, canvas, gen, logoLoads, svgLoads, genCount,
                   lastPublish, lastSave, errors>>

\* disabled={isGenerating || !options.text.trim()} (App.tsx:417)
GenerateEnabled == ~isGenerating /\ ~IsBlank(options.text)

\* handleManualGenerate (App.tsx:172-174)
HandleManualGenerate ==
    /\ AppOnly
    /\ UserEvent
    /\ GenerateEnabled
    /\ GenerateCall(options, isDarkMode)
    /\ UNCHANGED <<options, qrDataUrl, qrSvgString, autoGenerate, selectedFormat,
                   isDarkMode, logoLoads, svgLoads, lastPublish, lastSave, errors>>

-----------------------------------------------------------------------------
(* downloadQRCode (App.tsx:183-292) *)

\* disabled={!qrDataUrl || isGenerating} (App.tsx:583)
DownloadEnabled == qrDataUrl # EmptyUrl /\ ~isGenerating

\* the text QRCode.toString returned for a rendering, tag by tag: the <svg>
\* tag, the background path, the module path, </svg>, and the line feed the
\* encoder ends its output with
SvgText(rendering) ==
    << El("svg", rendering.width, rendering.width, 0, 0, "", ""),
       El("path", 0, 0, 0, 0, rendering.light, ""),
       El("path", 0, 0, 0, 0, rendering.dark, ""),
       El("/svg", 0, 0, 0, 0, "", ""),
       El("\n", 0, 0, 0, 0, "", "") >>

InsertAfterEnd(text, els) == text \o els

\* svgContent.replace('</svg>', `${backgroundRect}${logoElement}</svg>`)
\* (App.tsx:233): the first </svg> is replaced; without one the text is kept
InsertBeforeClose(text, els) ==
    LET closes == { i \in 1..Len(text) : text[i].tag = "/svg" }
    IN  IF closes = {} THEN text
        ELSE LET k == CHOOSE i \in closes : \A j \in closes : i <= j
             IN  SubSeq(text, 1, k - 1) \o els \o <<text[k]>>
                    \o SubSeq(text, k + 1, Len(text))

\* one saved file, with the request state of the render that handled the
\* click; doc is the text of a saved svg file
Saved(fmt, png, svg, els, text, opts, dark, sync, dl) ==
    [fmt |-> fmt, png |-> png, svg |-> svg, els |-> els, text |-> text,
     opts |-> opts, dark |-> dark, sync |-> sync, dl |-> dl,
     doc |-> IF fmt # "svg" THEN <<>>
             ELSE IF els = <<>> THEN SvgText(svg)
             ELSE InsertBeforeClose(SvgText(svg), els)]

\* characters of the payload shown in the pdf's footer (App.tsx:284)
PdfContentMax == 50

\* `${options.text.substring(0, 50)}${options.text.length > 50 ? '...' : ''}`
PdfContent(text) ==
    IF Len(text) > PdfContentMax
    THEN SubSeq(text, 1, PdfContentMax) \o <<".", ".", ".">>
    ELSE text

DownloadQRCode ==
    /\ AppOnly
    /\ UserEvent
    /\ DownloadEnabled
    /\ IF \/ (qrDataUrl = EmptyUrl /\ selectedFormat = "png")
          \/ (qrSvgString = NoBase /\ selectedFormat = "svg")
       THEN UNCHANGED <<lastSave, svgLoads>>
       ELSE CASE selectedFormat = "png" ->
                   /\ lastSave' = Saved("png", qrDataUrl, NoBase, <<>>, <<>>,
                                        options, isDarkMode, TRUE, steps + 1)
                   /\ UNCHANGED svgLoads
              [] selectedFormat = "svg" ->
                   IF HasLogo(options)
                   THEN /\ svgLoads' = svgLoads \cup
                              {[dl |-> steps + 1, svg |-> qrSvgString,
                                opts |-> options, dark |-> isDarkMode]}
                        /\ UNCHANGED lastSave
                   ELSE /\ lastSave' = Saved("svg", EmptyUrl, qrSvgString, <<>>, <<>>,
                                             options, isDarkMode, TRUE, steps + 1)
                        /\ UNCHANGED svgLoads
              [] selectedFormat = "pdf" ->
                   /\ lastSave' = Saved("pdf", qrDataUrl, NoBase, <<>>,
                                        PdfContent(options.text), options,
                                        isDarkMode, TRUE, steps + 1)
                   /\ UNCHANGED svgLoads
    /\ UNCHANGED <<options, qrDataUrl, qrSvgString, isGenerating, autoGenerate,
                   selectedFormat, isDarkMode, canvas, gen, logoLoads, genCount,
                   lastPublish, errors>>

\* what getContext('2d') of the download's temporary canvas gives
\* (App.tsx:211-212)
TempContexts == {"2d", "null"}

\* img.onload of an svg download (App.tsx:215-243): re-encode the logo, build
\* the elements, insert them before </svg>, save
SvgOnload(d) ==
    /\ AppOnly
    /\ gen.pc = "idle"
    /\ d \in svgLoads
    /\ Decodes(d.opts.logoFile)
    /\ \E ctx \in TempContexts :
          IF ctx = "2d"
          THEN lastSave' = Saved("svg", EmptyUrl, d.svg,
                                 VectorOverlay(d.opts.size, d.opts.logoSize,
                                               d.opts.logoShape, d.dark),
                                 <<>>, d.opts, d.dark, FALSE, d.dl)
          ELSE \* if (ctx) fails (App.tsx:219): nothing is saved or logged
               UNCHANGED lastSave
    /\ svgLoads' = svgLoads \ {d}
    /\ UNCHANGED <<options, qrDataUrl, qrSvgString, isGenerating, autoGenerate,
                   selectedFormat, isDarkMode, canvas, gen, logoLoads, genCount,
                   steps, lastPublish, errors>>

\* the image of an svg download fails to decode: no onerror, nothing is saved
SvgError(d) ==
    /\ UNCHANGED <<surface, geomVars, batchVars, imported, csvCase>>
    /\ dropped' = dropped \cup {Dropped("svg-logo-load", d.dl)}
    /\ gen.pc = "idle"
    /\ d \in svgLoads
    /\ ~Decodes(d.opts.logoFile)
    /\ svgLoads' = svgLoads \ {d}
    /\ UNCHANGED <<options, qrDataUrl, qrSvgString, isGenerating, autoGenerate,
                   selectedFormat, isDarkMode, canvas, gen, logoLoads, genCount,
                   steps, lastPublish, lastSave, errors>>

-----------------------------------------------------------------------------
(* Strings of the BatchGenerator *)

\* String(n) for n >= 0
RECURSIVE Digits(_)
Digits(n) ==
    LET d == <<"0", "1", "2", "3", "4", "5", "6", "7", "8", "9">>[(n % 10) + 1]
    IN  IF n < 10 THEN <<d>> ELSE Digits(n \div 10) \o <<d>>

\* String.prototype.split with a one-character separator
RECURSIVE SplitOn(_, _)
SplitOn(s, sep) ==
    IF \A i \in 1..Len(s) : s[i] # sep
    THEN <<s>>
    ELSE LET k == CHOOSE i \in 1..Len(s) : s[i] = sep /\ \A j \in 1..(i - 1) : s[j] # sep
         IN  <<SubSeq(s, 1, k - 1)>> \o SplitOn(SubSeq(s, k + 1, Len(s)), sep)

UpperCase == <<"A", "B", "C", "D", "E", "F", "G", "H", "I", "J", "K", "L", "M",
               "N", "O", "P", "Q", "R", "S", "T", "U", "V", "W", "X", "Y", "Z",
               "À", "Á", "Â", "Ã", "Ä", "Å", "Æ", "Ç", "È", "É", "Ê", "Ë", "Ì",
               "Í", "Î", "Ï", "Ð", "Ñ", "Ò", "Ó", "Ô", "Õ", "Ö", "Ø", "Ù", "Ú",
               "Û", "Ü", "Ý", "Þ">>
LowerCase == <<"a", "b", "c", "d", "e", "f", "g", "h", "i", "j", "k", "l", "m",
               "n", "o", "p", "q", "r", "s", "t", "u", "v", "w", "x", "y", "z",
               "à", "á", "â", "ã", "ä", "å", "æ", "ç", "è", "é", "ê", "ë", "ì",
               "í", "î", "ï", "ð", "ñ", "ò", "ó", "ô", "õ", "ö", "ø", "ù", "ú",
               "û", "ü", "ý", "þ">>

\* String.prototype.toLowerCase, over the letters of Basic Latin and Latin-1
\* (U+0041..U+005A, U+00C0..U+00D6, U+00D8..U+00DE)
ToLowerCase(s) ==
    [ i \in 1..Len(s) |->
        IF \E k \in DOMAIN UpperCase : UpperCase[k] = s[i]
        THEN LowerCase[CHOOSE k \in DOMAIN UpperCase : UpperCase[k] = s[i]]
        ELSE s[i] ]

\* String.prototype.includes
Includes(s, sub) ==
    \E i \in 1..(Len(s) - Len(sub) + 1) : SubSeq(s, i, i + Len(sub) - 1) = sub

\* s.replace(/"/g, '')
RECURSIVE StripQuotes(_)
StripQuotes(s) ==
    IF s = <<>> THEN <<>>
    ELSE IF Head(s) = "\"" THEN StripQuotes(Tail(s))
    ELSE <<Head(s)>> \o StripQuotes(Tail(s))

-----------------------------------------------------------------------------
(* BatchGenerator: the collection (part_000:25-85) *)

BatchItem(id, text, filename) == [id |-> id, text |-> text, filename |-> filename]

\* useState<BatchItem[]>([...]) (part_000:25-29); ids are the strings '1', '2',
\* '3', held as the numbers they spell
InitBatchItems ==
    << BatchItem(1, ExampleUrl, <<"e", "x", "a", "m", "p", "l", "e", "-", "w", "e", "b", "s", "i", "t", "e">>),
       BatchItem(2, <<"m", "a", "i", "l", "t", "o", ":", "c", "o", "n", "t", "a", "c", "t", "@", "c", "o", "m", "p", "a", "n", "y", ".", "c", "o", "m">>, <<"c", "o", "n", "t", "a", "c", "t", "-", "e", "m", "a", "i", "l">>),
       BatchItem(3, <<"t", "e", "l", ":", "+", "1", "2", "3", "4", "5", "6", "7", "8", "9", "0">>, <<"p", "h", "o", "n", "e", "-", "n", "u", "m", "b", "e", "r">>) >>

\* `qr-code-${n}`
QrCodeName(n) == <<"q", "r", "-", "c", "o", "d", "e", "-">> \o Digits(n)

\* the ids of the collection
ItemIds == { batchItems[i].id : i \in 1..Len(batchItems) }

\* the BatchGenerator touches neither the App's state nor the placement runs
BatchOnly == UNCHANGED <<appVars, geomVars, obsVars>>

\* a user event of the BatchGenerator: a task of its own, run when no
\* downloadBatch call is between an await and its microtask continuation
BatchUserEvent ==
    /\ batch.pc \in {"idle", "png-wait"}
    /\ bsteps < MaxBatchSteps
    /\ bsteps' = bsteps + 1
    /\ BatchOnly

\* addBatchItem (part_000:38-45)
AddBatchItem ==
    /\ BatchUserEvent
    /\ batchItems' = Append(batchItems,
                            BatchItem(now, <<>>, QrCodeName(Len(batchItems) + 1)))
    /\ UNCHANGED <<batchSelectedFormat, batchIsGenerating, batch, doc, currentPage,
                   now, batchSaves, batchErrors>>

\* updateBatchItem (part_000:47-53) for field 'text' or 'filename'
UpdateBatchItem(id, field, value) ==
    /\ BatchUserEvent
    /\ id \in ItemIds
    /\ batchItems' = [ i \in 1..Len(batchItems) |->
                         IF batchItems[i].id = id
                         THEN IF field = "text"
                              THEN [batchItems[i] EXCEPT !.text = value]
                              ELSE [batchItems[i] EXCEPT !.filename = value]
                         ELSE batchItems[i] ]
    /\ batchItems' # batchItems
    /\ UNCHANGED <<batchSelectedFormat, batchIsGenerating, batch, doc, currentPage,
                   now, batchSaves, batchErrors>>

\* removeBatchItem (part_000:55-57)
RemoveBatchItem(id) ==
    /\ BatchUserEvent
    /\ id \in ItemIds
    /\ LET Keep(item) == item.id # id
       IN  batchItems' = SelectSeq(batchItems, Keep)
    /\ UNCHANGED <<batchSelectedFormat, batchIsGenerating, batch, doc, currentPage,
                   now, batchSaves, batchErrors>>

\* e.target.result of the latest FileReader load
Imported(csv) == [read |-> TRUE, text |-> csv]
NoImport == [read |-> FALSE, text |-> <<>>]

\* a file as written: its rows, how fields are dressed, how lines end
CsvCase(rows, style, brk) == [rows |-> rows, style |-> style, brk |-> brk]
NoCase == CsvCase(<<>>, "plain", <<>>)

\* nothing imported, nothing dropped
ObsInit ==
    /\ imported = NoImport
    /\ dropped = {}
    /\ csvCase = NoCase

\* csv.split('\n').filter(line => line.trim())
CsvLines(csv) ==
    LET Keep(line) == Trim(line) # <<>>
    IN  SelectSeq(SplitOn(csv, "\n"), Keep)

\* lines[0].toLowerCase().includes('text') || lines[0].toLowerCase().includes('url')
IsHeaderCaseSensitive(line) ==
    \/ Includes(line, <<"t", "e", "x", "t">>)
    \/ Includes(line, <<"u", "r", "l">>)

IsHeader(line) ==
    \/ Includes(ToLowerCase(line), <<"t", "e", "x", "t">>)
    \/ Includes(ToLowerCase(line), <<"u", "r", "l">>)

\* dataLines (part_000:69-71)
DataLines(lines) == IF IsHeader(lines[1]) THEN Tail(lines) ELSE lines

\* line.split(',').map(s => s.trim().replace(/"/g, ''))
CsvFields(line) ==
    LET parts == SplitOn(line, ",")
    IN  [ i \in 1..Len(parts) |-> StripQuotes(Trim(parts[i])) ]

\* one element of dataLines.map((line, index) => ...) (part_000:73-79);
\* index counts from 0, clock is what Date.now() returns in this call of the
\* callback
CsvItem(line, index, clock) ==
    LET fields   == CsvFields(line)
        text     == fields[1]
        filename == IF Len(fields) >= 2 THEN fields[2] ELSE <<>>
    IN  BatchItem(clock + index,
                  text,
                  IF filename # <<>> THEN filename ELSE QrCodeName(index + 1))

\* newItems (part_000:73-80); the callback reads Date.now() once for every
\* data line, reads[i] is the reading for the i-th of them
CsvItems(csv, reads) ==
    LET data   == DataLines(CsvLines(csv))
        mapped == [ i \in 1..Len(data) |-> CsvItem(data[i], i - 1, reads[i]) ]
        Keep(item) == item.text # <<>>
    IN  SelectSeq(mapped, Keep)

\* the readings n successive calls of Date.now() can return, the first of them
\* no earlier than from: the clock never runs backwards, and may advance
\* between any two calls
RECURSIVE ClockReads(_, _, _)
ClockReads(n, from, upTo) ==
    IF n = 0 THEN { <<>> }
    ELSE UNION { { <<t>> \o rest : rest \in ClockReads(n - 1, t, upTo) } :
                 t \in from..upTo }

\* reader.onload of handleCSVUpload (part_000:64-83) on the file's text; with
\* no non-blank line, lines[0] is undefined and its toLowerCase() throws, which
\* nothing catches
HandleCSVUpload(csv) ==
    /\ batch.pc \in {"idle", "png-wait"}
    /\ bsteps < MaxBatchSteps
    /\ bsteps' = bsteps + 1
    /\ imported' = Imported(csv)
    /\ IF CsvLines(csv) = <<>>
       THEN /\ dropped' = dropped \cup {Dropped("csv-import", 0)}
            /\ UNCHANGED <<batchItems, now>>
       ELSE \E reads \in ClockReads(Len(DataLines(CsvLines(csv))), now,
                                     ClockEnd) :
               /\ batchItems' = CsvItems(csv, reads)
               /\ now' = IF reads = <<>> THEN now ELSE reads[Len(reads)]
               /\ UNCHANGED dropped
    /\ UNCHANGED <<appVars, geomVars, csvCase, batchSelectedFormat, batchIsGenerating,
                   batch, doc, currentPage, batchSaves, batchErrors>>

\* format buttons (part_000:285)
BatchFormats == {"png-zip", "pdf-pages", "pdf-grid"}

SetBatchFormat(f) ==
    /\ BatchUserEvent
    /\ f # batchSelectedFormat
    /\ batchSelectedFormat' = f
    /\ UNCHANGED <<batchItems, batchIsGenerating, batch, doc, currentPage, now,
                   batchSaves, batchErrors>>

\* the clock advances between tasks
Tick ==
    /\ batch.pc \in {"idle", "png-wait"}
    /\ now < ClockEnd
    /\ now' = now + 1
    /\ BatchOnly
    /\ UNCHANGED <<batchItems, batchSelectedFormat, batchIsGenerating, batch, doc,
                   currentPage, bsteps, batchSaves, batchErrors>>


-----------------------------------------------------------------------------
(* BatchGenerator: downloadBatch (part_000:87-227) *)

\* const [errorCorrectionLevel] = useState('H')
BatchECL == "H"

HasTextAlways(item) == TRUE

\* item.text.trim() is non-empty
HasText(item) == ~IsBlank(item.text)

\* batchItems.filter(item => item.text.trim()) (part_000:113)
ValidItems(items) == SelectSeq(items, HasText)

\* where a downloadBatch call stands: its validItems and loop index
BatchAt(pc, validItems, i) == [pc |-> pc, validItems |-> validItems, i |-> i]

\* millimetres, in sixtieths so that every coordinate below is whole; the A4
\* page of new jsPDF({unit: 'mm', format: 'a4'}) is taken at its nominal
\* 210 x 297
Mm(n) == n * 60
PdfWidth == 210
PdfHeight == 297

\* one call on the document: addImage(data, 'PNG', x, y, w, w) or
\* text(data, x, y, {align: 'center'}); i is the loop index of the call
Draw(op, i, data, x, y, w) ==
    [op |-> op, i |-> i, data |-> data, x |-> x, y |-> y, w |-> w]

\* a jsPDF document: new jsPDF() has one page; calls draw on the last page
Doc(kind, pages) == [kind |-> kind, pages |-> pages]
NoDoc == Doc("none", <<>>)
NewDoc(kind) == Doc(kind, << <<>> >>)
AddPage(d) == [d EXCEPT !.pages = Append(@, <<>>)]
DrawOn(d, calls) == [d EXCEPT !.pages[Len(d.pages)] = @ \o calls]

\* a saved file: link.click() with a download name, or pdf.save(name)
SavedFile(name, kind, items, content) ==
    [name |-> name, kind |-> kind, items |-> items, content |-> content]

\* the state of a freshly mounted BatchGenerator
BatchInit ==
    /\ batchItems = InitBatchItems
    /\ batchSelectedFormat = "png-zip"
    /\ batchIsGenerating = FALSE
    /\ batch = BatchAt("idle", <<>>, 0)
    /\ doc = NoDoc
    /\ currentPage = 0
    /\ now = ClockStart
    /\ bsteps = 0
    /\ batchSaves = <<>>
    /\ batchErrors = 0

BatchItemAtCurrent ==
    IF batch.i + 1 <= Len(ValidItems(batchItems))
    THEN ValidItems(batchItems)[batch.i + 1]
    ELSE batch.validItems[batch.i + 1]

BatchItemAtReversed == batch.validItems[Len(batch.validItems) - batch.i]

\* the item of the running iteration
BatchItemAt == batch.validItems[batch.i + 1]

BatchCatchContinues ==
    /\ batchErrors' = IF batchErrors < MaxErrors THEN batchErrors + 1 ELSE batchErrors
    /\ IF batch.i + 1 < Len(batch.validItems)
       THEN /\ batch' = [batch EXCEPT !.i = @ + 1]
            /\ UNCHANGED batchIsGenerating
       ELSE /\ batch' = BatchAt("idle", <<>>, 0)
            /\ batchIsGenerating' = FALSE
    /\ UNCHANGED <<batchItems, batchSelectedFormat, doc, currentPage, now, bsteps,
                   batchSaves>>

\* catch and finally of downloadBatch (part_000:222-226)
BatchCatch ==
    /\ batchErrors' = IF batchErrors < MaxErrors THEN batchErrors + 1 ELSE batchErrors
    /\ batchIsGenerating' = FALSE
    /\ batch' = BatchAt("idle", <<>>, 0)
    /\ UNCHANGED <<batchItems, batchSelectedFormat, doc, currentPage, now, bsteps,
                   batchSaves>>

\* ---- pdf-pages (part_000:129-164)

PagesQrSize == IF (Mm(PdfWidth) * 6) \div 10 < (Mm(PdfHeight) * 6) \div 10
               THEN (Mm(PdfWidth) * 6) \div 10 ELSE (Mm(PdfHeight) * 6) \div 10
PagesXPos == (Mm(PdfWidth) - PagesQrSize) \div 2
PagesYPos == (Mm(PdfHeight) - PagesQrSize) \div 2

PagesBeginNeverAdds(d, i) == d

\* top of an iteration, up to the await: if (i > 0) pdfPages.addPage()
PagesBegin(d, i) == IF i > 0 THEN AddPage(d) ELSE d

\* the calls of one iteration after the await (part_000:141-160)
PagesCalls(item, i) ==
    << Draw("text", i,
            IF item.filename # <<>> THEN item.filename
            ELSE <<"Q", "R", " ", "C", "o", "d", "e", " ">> \o Digits(i + 1),
            Mm(PdfWidth) \div 2, Mm(30), 0),
       Draw("addImage", i, item.text, PagesXPos, PagesYPos, PagesQrSize),
       Draw("text", i, item.text,
            Mm(PdfWidth) \div 2, PagesYPos + PagesQrSize + Mm(20), 0) >>

\* ---- pdf-grid (part_000:166-220)

GridMargin == 20
GridCols == 2
GridRows == 3
CellWidth == (Mm(PdfWidth) - Mm(GridMargin) * 2) \div GridCols
CellHeight == (Mm(PdfHeight) - Mm(GridMargin) * 2) \div GridRows
GridQrSize == IF (CellWidth * 7) \div 10 < (CellHeight * 5) \div 10
              THEN (CellWidth * 7) \div 10 ELSE (CellHeight * 5) \div 10

PageIndex(i) == i \div (GridCols * GridRows)
CellIndex(i) == i % (GridCols * GridRows)
GridCol(i) == CellIndex(i) % GridCols
GridRow(i) == CellIndex(i) \div GridCols
GridX(i) == Mm(GridMargin) + GridCol(i) * CellWidth
GridY(i) == Mm(GridMargin) + GridRow(i) * CellHeight

GridNeverAddsPage(pageIndex, current) == FALSE

\* if (pageIndex > currentPage)
GridNeedsPage(pageIndex, current) == pageIndex > current

GridBeginKeepsCurrent(d, current, i) ==
    IF GridNeedsPage(PageIndex(i), current)
    THEN [doc |-> AddPage(d), currentPage |-> current]
    ELSE [doc |-> d, currentPage |-> current]

\* top of an iteration, up to the await (part_000:185-197): the document and
\* currentPage after it
GridBegin(d, current, i) ==
    IF GridNeedsPage(PageIndex(i), current)
    THEN [doc |-> AddPage(d), currentPage |-> PageIndex(i)]
    ELSE [doc |-> d, currentPage |-> current]

\* item.text.length > 30 ? item.text.substring(0, 30) + '...' : item.text
TruncatedText(text) ==
    IF Len(text) > 30 THEN SubSeq(text, 1, 30) \o <<".", ".", ".">> ELSE text

\* the calls of one iteration after the await (part_000:201-216)
GridCalls(item, i) ==
    LET qrX == GridX(i) + (CellWidth - GridQrSize) \div 2
        qrY == GridY(i) + Mm(10)
    IN  << Draw("addImage", i, item.text, qrX, qrY, GridQrSize),
           Draw("text", i,
                IF item.filename # <<>> THEN item.filename
                ELSE <<"Q", "R", " ">> \o Digits(i + 1),
                GridX(i) + CellWidth \div 2, qrY + GridQrSize + Mm(8), 0),
           Draw("text", i, TruncatedText(item.text),
                GridX(i) + CellWidth \div 2, qrY + GridQrSize + Mm(15), 0) >>

\* ---- the call

HasNextNever(i, validItems) == FALSE

\* the loops go on: i + 1 < validItems.length (part_000:118, 136, 184)
HasNext(i, validItems) == i + 1 < Len(validItems)

BatchDownloadIgnoresFlag ==
    \E k \in 1..Len(batchItems) : HasText(batchItems[k])

\* the Download button (part_000:305-306) and the guard of line 108
BatchDownloadEnabled ==
    /\ ~batchIsGenerating
    /\ \E k \in 1..Len(batchItems) : HasText(batchItems[k])

\* downloadBatch from the click up to its first await
DownloadBatch ==
    /\ BatchUserEvent
    /\ BatchDownloadEnabled
    /\ batchIsGenerating' = TRUE
    /\ LET validItems == ValidItems(batchItems)
       IN  CASE batchSelectedFormat = "png-zip" ->
                  /\ batch' = BatchAt("png-gen", validItems, 0)
                  /\ doc' = NoDoc
                  /\ currentPage' = 0
             [] batchSelectedFormat = "pdf-pages" ->
                  /\ batch' = BatchAt("pages-gen", validItems, 0)
                  /\ doc' = PagesBegin(NewDoc("pdf-pages"), 0)
                  /\ currentPage' = 0
             [] batchSelectedFormat = "pdf-grid" ->
                  LET begun == GridBegin(NewDoc("pdf-grid"), 0, 0)
                  IN  /\ batch' = BatchAt("grid-gen", validItems, 0)
                      /\ doc' = begun.doc
                      /\ currentPage' = begun.currentPage
    /\ UNCHANGED <<batchItems, batchSelectedFormat, now, batchSaves, batchErrors>>

\* png-zip: generateQRCodeDataURL settles; link.click(); the call then waits
\* on setTimeout(resolve, 100) (part_000:119-125)
PngGenerated ==
    /\ BatchOnly
    /\ batch.pc = "png-gen"
    /\ IF EncoderRejects(BatchItemAt.text, BatchECL)
       THEN BatchCatch
       ELSE /\ batchSaves' = Append(batchSaves,
                SavedFile((IF BatchItemAt.filename # <<>> THEN BatchItemAt.filename
                           ELSE <<"q", "r", "-", "c", "o", "d", "e">>)
                             \o <<".", "p", "n", "g">>,
                          "png", <<BatchItemAt>>, NoDoc))
            /\ batch' = [batch EXCEPT !.pc = "png-wait"]
            /\ UNCHANGED <<batchItems, batchSelectedFormat, batchIsGenerating, doc,
                           currentPage, now, bsteps, batchErrors>>

\* png-zip: the timer fires; next item, or the loop ends and finally runs
PngTimeout ==
    /\ BatchOnly
    /\ batch.pc = "png-wait"
    /\ IF HasNext(batch.i, batch.validItems)
       THEN /\ batch' = [batch EXCEPT !.pc = "png-gen", !.i = @ + 1]
            /\ UNCHANGED batchIsGenerating
       ELSE /\ batch' = BatchAt("idle", <<>>, 0)
            /\ batchIsGenerating' = FALSE
    /\ UNCHANGED <<batchItems, batchSelectedFormat, doc, currentPage, now, bsteps,
                   batchSaves, batchErrors>>

\* `qrbrandr-${kind}-${Date.now()}.pdf`
PdfName(kind) ==
    <<"q", "r", "b", "r", "a", "n", "d", "r", "-">> \o kind \o <<"-">>
        \o Digits(now) \o <<".", "p", "d", "f">>

\* pdf-pages: generateQRCodeDataURL settles; the page is drawn; then the top
\* of the next iteration, or the save and finally
PagesGenerated ==
    /\ BatchOnly
    /\ batch.pc = "pages-gen"
    /\ IF EncoderRejects(BatchItemAt.text, BatchECL)
       THEN BatchCatch
       ELSE LET drawn == DrawOn(doc, PagesCalls(BatchItemAt, batch.i))
            IN  /\ IF HasNext(batch.i, batch.validItems)
                   THEN /\ doc' = PagesBegin(drawn, batch.i + 1)
                        /\ batch' = [batch EXCEPT !.i = @ + 1]
                        /\ UNCHANGED <<batchSaves, batchIsGenerating>>
                   ELSE /\ doc' = drawn
                        /\ batchSaves' = Append(batchSaves,
                              SavedFile(PdfName(<<"b", "a", "t", "c", "h">>),
                                        "pdf-pages", batch.validItems, drawn))
                        /\ batch' = BatchAt("idle", <<>>, 0)
                        /\ batchIsGenerating' = FALSE
                /\ UNCHANGED <<batchItems, batchSelectedFormat, currentPage, now,
                               bsteps, batchErrors>>

\* pdf-grid: generateQRCodeDataURL settles; the cell is drawn; then the top of
\* the next iteration, or the save and finally
GridGenerated ==
    /\ BatchOnly
    /\ batch.pc = "grid-gen"
    /\ IF EncoderRejects(BatchItemAt.text, BatchECL)
       THEN BatchCatch
       ELSE LET drawn == DrawOn(doc, GridCalls(BatchItemAt, batch.i))
                begun == GridBegin(drawn, currentPage, batch.i + 1)
            IN  /\ IF HasNext(batch.i, batch.validItems)
                   THEN /\ doc' = begun.doc
                        /\ currentPage' = begun.currentPage
                        /\ batch' = [batch EXCEPT !.i = @ + 1]
                        /\ UNCHANGED <<batchSaves, batchIsGenerating>>
                   ELSE /\ doc' = drawn
                        /\ batchSaves' = Append(batchSaves,
                              SavedFile(PdfName(<<"g", "r", "i", "d">>),
                                        "pdf-grid", batch.validItems, drawn))
                        /\ batch' = BatchAt("idle", <<>>, 0)
                        /\ batchIsGenerating' = FALSE
                        /\ UNCHANGED currentPage
                /\ UNCHANGED <<batchItems, batchSelectedFormat, now, bsteps,
                               batchErrors>>

-----------------------------------------------------------------------------
(* The BatchGenerator's inputs and its specification *)

\* texts and names a user types into a row
TypedTexts == { <<>>, BlankPayload, LongPayload }
TypedNames == { <<>>, <<"a">> }

\* rows a user edits or removes: the first EditRows rows of the list
EditRows == 2
EditIds == { batchItems[k].id : k \in 1..(IF Len(batchItems) < EditRows
                                           THEN Len(batchItems) ELSE EditRows) }

\* "p1,f1\np2,f2\n...": n data lines without a header line
RECURSIVE CsvRows(_)
CsvRows(n) ==
    IF n = 0 THEN <<>>
    ELSE CsvRows(n - 1) \o <<"p">> \o Digits(n) \o <<",", "f">> \o Digits(n) \o <<"\n">>

\* a file with a header line, a bare payload, and a quoted, padded line
CsvExample == <<"t", "e", "x", "t", ",", "f", "i", "l", "e", "n", "a", "m", "e", "\n", "h", "t", "t", "p", "s", ":", "/", "/", "a", ".", "c", "o", "m", ",", "s", "i", "t", "e", "-", "a", "\n", "t", "e", "l", ":", "+", "1", "\n", " ", "\"", "p", " ", "3", "\"", " ", ",", " ", "\"", "f", "3", "\"", " ", "\n">>

\* a header line and nothing else
CsvHeaderOnly == <<"t", "e", "x", "t", ",", "f", "i", "l", "e", "n", "a", "m", "e", "\n">>

CsvFiles == { <<>>, CsvExample, CsvHeaderOnly } \cup { CsvRows(n) : n \in {1, 6, 7, MaxCsvRows} }

SpecBatchInit == AppIdle /\ GeomIdle /\ BatchInit /\ ObsInit

SpecBatchNext ==
    \/ AddBatchItem
    \/ \E id \in EditIds, value \in TypedTexts : UpdateBatchItem(id, "text", value)
    \/ \E id \in EditIds, value \in TypedNames : UpdateBatchItem(id, "filename", value)
    \/ \E id \in EditIds : RemoveBatchItem(id)
    \/ \E csv \in CsvFiles : HandleCSVUpload(csv)
    \/ \E f \in BatchFormats : SetBatchFormat(f)
    \/ Tick
    \/ DownloadBatch
    \/ PngGenerated
    \/ PngTimeout
    \/ PagesGenerated
    \/ GridGenerated

SpecBatch == SpecBatchInit /\ [][SpecBatchNext]_vars

-----------------------------------------------------------------------------
(* The import on its own (SpecCsv): files written from known rows *)

\* rows of at most this many lines per file
MaxCaseRows == 3

CsvRow(payload, hint) == [payload |-> payload, hint |-> hint]

\* the lines a file is written from: header lines and data lines
CsvRowValues ==
    { CsvRow(<<"t", "e", "x", "t">>, <<"f", "i", "l", "e", "n", "a", "m", "e">>),
      CsvRow(<<"U", "R", "L">>, <<"N", "a", "m", "e">>),
      CsvRow(<<"P", "a", "y", "l", "o", "a", "d">>, <<"F", "i", "l", "e">>),
      CsvRow(<<"h", "t", "t", "p", "s", ":", "/", "/", "a", ".", "c", "o", "m">>, <<"s", "i", "t", "e", "-", "a">>),
      CsvRow(<<"t", "e", "l", ":", "+", "1">>, <<"p", "h", "o", "n", "e">>),
      CsvRow(<<"m", "y", "u", "r", "l", ".", "i", "o">>, <<"u">>) }

CsvStyles == {"plain", "padded", "quoted", "quoted-padded"}

\* "\n", "\r\n", and "\n" followed by a whitespace-only line
CsvBreaks == { <<"\n">>, <<"\r", "\n">>, <<"\n", " ", "\n">> }

\* a field as written in the file
WriteField(v, style) ==
    CASE style = "plain"  -> v
      [] style = "padded" -> <<" ">> \o v \o <<" ", " ">>
      [] style = "quoted" -> <<"\"">> \o v \o <<"\"">>
      [] style = "quoted-padded" -> <<" ", "\"">> \o v \o <<"\"", " ">>

WriteLine(row, style) == WriteField(row.payload, style) \o <<",">> \o WriteField(row.hint, style)

\* the file's text: every line followed by the line break
RECURSIVE WriteCsv(_, _, _)
WriteCsv(rows, style, brk) ==
    IF rows = <<>> THEN <<>>
    ELSE WriteLine(Head(rows), style) \o brk \o WriteCsv(Tail(rows), style, brk)

RECURSIVE SeqsUpTo(_, _)
SeqsUpTo(S, n) ==
    IF n = 0 THEN { <<>> }
    ELSE SeqsUpTo(S, n - 1)
           \cup { Append(q, x) : q \in { r \in SeqsUpTo(S, n - 1) : Len(r) = n - 1 }, x \in S }

CsvCases ==
    { CsvCase(rows, style, brk) :
        rows \in SeqsUpTo(CsvRowValues, MaxCaseRows) \ { <<>> },
        style \in CsvStyles, brk \in CsvBreaks }

\* the user picks the file written from csvCase; reader.onload runs once
ImportCase ==
    /\ ~imported.read
    /\ HandleCSVUpload(WriteCsv(csvCase.rows, csvCase.style, csvCase.brk))

SpecCsvInit ==
    /\ AppIdle
    /\ GeomIdle
    /\ BatchInit
    /\ imported = NoImport
    /\ dropped = {}
    /\ csvCase \in CsvCases

SpecCsvNext == ImportCase

SpecCsv == SpecCsvInit /\ [][SpecCsvNext]_vars

-----------------------------------------------------------------------------
(* The App's specification *)

Init == AppInit /\ GeomIdle /\ BatchInit /\ ObsInit

Next ==
    \/ MountEffect
    \/ GenAfterToCanvas
    \/ GenAfterToString
    \/ GenFinally
    \/ \E r \in logoLoads : LogoOnload(r)
    \/ \E r \in logoLoads : LogoError(r)
    \/ \E t \in Payloads : SetText(t)
    \/ \E n \in AppSizes : SetSize(n)
    \/ \E e \in ECLevels : SetErrorCorrectionLevel(e)
    \/ \E sh \in Shapes : SetLogoShape(sh)
    \/ \E n \in AppLogoSizes : SetLogoSize(n)
    \/ \E f \in Files : HandleFileUpload(f)
    \/ ClearLogo
    \/ ToggleTheme
    \/ SetAutoGenerate
    \/ \E f \in Formats : SetSelectedFormat(f)
    \/ HandleManualGenerate
    \/ DownloadQRCode
    \/ \E d \in svgLoads : SvgOnload(d)
    \/ \E d \in svgLoads : SvgError(d)

Spec == Init /\ [][Next]_vars

-----------------------------------------------------------------------------
(* Both components under the event loop's scheduling (SpecLive): a behaviour *)
(* is a session with the App, or a session with the BatchGenerator.         *)

\* the App with no user event reaching it
AppQuiet ==
    /\ options = InitOptions
    /\ qrDataUrl = EmptyUrl
    /\ qrSvgString = NoBase
    /\ isGenerating = FALSE
    /\ autoGenerate = TRUE
    /\ selectedFormat = "png"
    /\ isDarkMode = FALSE
    /\ canvas = FreshCanvas
    /\ surface = "2d"
    /\ gen = GenAt("idle", TRUE, NoRequest)
    /\ logoLoads = {}
    /\ svgLoads = {}
    /\ genCount = 0
    /\ steps = MaxSteps
    /\ lastPublish = NoPublish
    /\ lastSave = NoSave
    /\ errors = 0

\* the BatchGenerator with no user event reaching it
BatchQuiet ==
    /\ batchItems = InitBatchItems
    /\ batchSelectedFormat = "png-zip"
    /\ batchIsGenerating = FALSE
    /\ batch = BatchAt("idle", <<>>, 0)
    /\ doc = NoDoc
    /\ currentPage = 0
    /\ now = ClockEnd
    /\ bsteps = MaxBatchSteps
    /\ batchSaves = <<>>
    /\ batchErrors = 0

\* the inputs of a session: a payload the encoder rejects and an empty one,
\* a logo that loads and one that does not, and an import of more rows than
\* one grid page holds
LivePayloads == { <<>>, LongPayload }
LiveFiles == { LogoFile, "broken.png" }
LiveCsvFiles == { CsvExample, CsvRows(GridCols * GridRows + 1) }
\* the levels with the largest and the smallest capacity
LiveLevels == {"L", "H"}

SpecLiveInit ==
    \/ AppInit /\ GeomIdle /\ BatchQuiet /\ ObsInit
    \/ AppQuiet /\ GeomIdle /\ BatchInit /\ ObsInit

SpecLiveNext ==
    \/ MountEffect
    \/ GenAfterToCanvas
    \/ GenAfterToString
    \/ GenFinally
    \/ \E r \in logoLoads : LogoOnload(r)
    \/ \E r \in logoLoads : LogoError(r)
    \/ \E t \in LivePayloads : SetText(t)
    \/ SetSize(SizeMax)
    \/ \E e \in LiveLevels : SetErrorCorrectionLevel(e)
    \/ \E sh \in Shapes : SetLogoShape(sh)
    \/ SetLogoSize(LogoSizeMax)
    \/ \E f \in LiveFiles : HandleFileUpload(f)
    \/ ClearLogo
    \/ ToggleTheme
    \/ SetAutoGenerate
    \/ SetSelectedFormat("svg")
    \/ HandleManualGenerate
    \/ DownloadQRCode
    \/ \E d \in svgLoads : SvgOnload(d)
    \/ \E d \in svgLoads : SvgError(d)
    \/ AddBatchItem
    \/ \E id \in EditIds, value \in LivePayloads : UpdateBatchItem(id, "text", value)
    \/ \E id \in EditIds : UpdateBatchItem(id, "filename", <<>>)
    \/ \E id \in EditIds : RemoveBatchItem(id)
    \/ \E csv \in LiveCsvFiles : HandleCSVUpload(csv)
    \/ \E f \in BatchFormats : SetBatchFormat(f)
    \/ Tick
    \/ DownloadBatch
    \/ PngGenerated
    \/ PngTimeout
    \/ PagesGenerated
    \/ GridGenerated

\* what the event loop runs without anyone's doing: effects after a render,
\* continuations of settled promises, and the timer of the png delay. User
\* events and image loads are under no such condition.
SpecLiveFairness ==
    /\ WF_vars(MountEffect)
    /\ WF_vars(GenAfterToCanvas)
    /\ WF_vars(GenAfterToString)
    /\ WF_vars(GenFinally)
    /\ WF_vars(PngGenerated)
    /\ WF_vars(PngTimeout)
    /\ WF_vars(PagesGenerated)
    /\ WF_vars(GridGenerated)

SpecLive == SpecLiveInit /\ [][SpecLiveNext]_vars /\ SpecLiveFairness

-----------------------------------------------------------------------------
(* The placement computations on their own: each action applies one path's *)
(* computation to inputs drawn from the slider's sizes and from logo size  *)
(* percentages that reach beyond the slider's range.                       *)

\* the size slider's values: min 100, max 400, step 10 (App.tsx:359-361)
GeomSizes == { n \in SizeMin..SizeMax : (n - SizeMin) % SizeStep = 0 }

\* the values options.logoSize takes: the slider's, min 10, max 30, step 1
\* (App.tsx:510-516); the initial 20 is one of them
GeomRatios == LogoSizeMin..LogoSizeMax

GeomInput(path, size, logoSize, shape, dark) ==
    [path |-> path, size |-> size, logoSize |-> logoSize, shape |-> shape, dark |-> dark]

\* the compositing pass of img.onload in generateQRCode
ComputeRaster ==
    /\ UNCHANGED <<batchVars, obsVars>>
    /\ geomIn.path = "input"
    /\ geomIn' = [geomIn EXCEPT !.path = "raster"]
    /\ geomOut' = RasterOverlay(geomIn.size, geomIn.logoSize, geomIn.shape, geomIn.dark)
    /\ UNCHANGED appVars

\* the element construction of img.onload in downloadQRCode's svg case
ComputeVector ==
    /\ UNCHANGED <<batchVars, obsVars>>
    /\ geomIn.path = "input"
    /\ geomIn' = [geomIn EXCEPT !.path = "vector"]
    /\ geomOut' = VectorOverlay(geomIn.size, geomIn.logoSize, geomIn.shape, geomIn.dark)
    /\ UNCHANGED appVars

GeomInit ==
    /\ AppIdle
    /\ BatchInit
    /\ ObsInit
    /\ geomIn \in { GeomInput("input", size, logoSize, shape, dark) :
                      size \in GeomSizes, logoSize \in GeomRatios,
                      shape \in Shapes, dark \in BOOLEAN }
    /\ geomOut = <<>>

GeomNext ==
    \/ ComputeRaster
    \/ ComputeVector

SpecGeom == GeomInit /\ [][GeomNext]_vars

-----------------------------------------------------------------------------
(* Properties of the App (checked under Spec) *)

\* what a raster artifact shows, without the ids of the generations that drew it
RasterContent(url) ==
    [ width |-> url.width, height |-> url.height,
      text  |-> url.base.text, ecl |-> url.base.ecl,
      dark  |-> url.base.dark, light |-> url.base.light,
      ops   |-> url.ops ]

\* the raster artifact of the request (opts, dark)
RasterOf(opts, dark) ==
    [ width |-> opts.size, height |-> opts.size,
      text  |-> opts.text, ecl |-> opts.errorCorrectionLevel,
      dark  |-> DarkColor(dark), light |-> LightColor(dark),
      ops   |-> IF opts.logoFile # NoFile
                THEN RasterOverlay(opts.size, opts.logoSize, opts.logoShape, dark)
                ELSE <<>> ]

\* what a vector base shows, without the id of the generation that made it
VectorContent(svg) ==
    [ text |-> svg.text, width |-> svg.width, ecl |-> svg.ecl,
      dark |-> svg.dark, light |-> svg.light ]

VectorOf(opts, dark) ==
    [ text |-> opts.text, width |-> opts.size, ecl |-> opts.errorCorrectionLevel,
      dark |-> DarkColor(dark), light |-> LightColor(dark) ]

\* a request the encoder accepts
Encodable(opts) ==
    ~IsBlank(opts.text) /\ ~EncoderRejects(opts.text, opts.errorCorrectionLevel)

\* C1: every file saved by downloadQRCode (png, svg or pdf) is the artifact of
\* the request state (payload, size, error-correction level, logo, logo
\* size/shape, theme) that was current when the download was triggered
\* (stated for the downloads triggered in a request state that has an artifact).
C1_DownloadSavesCurrentRequest ==
    /\ (lastSave.fmt \in {"png", "pdf"} /\ Encodable(lastSave.opts)) =>
           RasterContent(lastSave.png) = RasterOf(lastSave.opts, lastSave.dark)
    /\ (lastSave.fmt = "svg" /\ Encodable(lastSave.opts)) =>
           /\ VectorContent(lastSave.svg) = VectorOf(lastSave.opts, lastSave.dark)
           /\ lastSave.els = IF lastSave.opts.logoFile # NoFile
                             THEN VectorOverlay(lastSave.opts.size, lastSave.opts.logoSize,
                                                lastSave.opts.logoShape, lastSave.dark)
                             ELSE <<>>

\* the generations in flight: called and neither failed nor published yet,
\* the pending logo load included
InFlight ==
    (IF gen.pc \in {"toCanvas", "toString"} THEN {gen.req.id} ELSE {})
        \cup { r.id : r \in logoLoads }

\* C2: at most one generation is in flight at any time, and isGenerating is
\* true for as long as one is (until its raster artifact is published or it
\* fails), so that no second generation starts meanwhile.
C2_OneGenerationInFlight ==
    /\ Cardinality(InFlight) <= 1
    /\ InFlight # {} => isGenerating

\* the generations whose onload has drawn on a surface or artifact
Painters(url) == { url.painters[i] : i \in 1..Len(url.painters) }

\* C3: every published raster artifact, and the drawing surface itself, holds
\* the base rendering of one generation and at most the logo overlay of that
\* same generation: no callback of generation A draws onto or publishes what
\* generation B rendered.
C3_NoLeakAcrossGenerations ==
    /\ qrDataUrl.base.gen # 0 =>
           /\ Len(qrDataUrl.painters) <= 1
           /\ Painters(qrDataUrl) \subseteq {qrDataUrl.base.gen}
    /\ canvas.base.gen # 0 => Painters(canvas) \subseteq {canvas.base.gen}

\* C4: a generation with a logo publishes its raster artifact only from the
\* logo's onload, after compositing its logo; a generation without a logo
\* publishes from the base rendering while isGenerating is still true.
C4_PublishOrder ==
    lastPublish.gen # 0 =>
        IF lastPublish.hasLogo
        THEN lastPublish.inOnload /\ lastPublish.composited
        ELSE ~lastPublish.inOnload /\ lastPublish.flag /\ ~lastPublish.composited

\* C4 witness: a generation with a logo has published from its onload, and
\* before it a generation without a logo had published synchronously.
C4_Witness ==
    /\ lastPublish.gen > 1
    /\ lastPublish.hasLogo
    /\ lastPublish.inOnload
    /\ lastPublish.composited
    /\ qrDataUrl.painters # <<>>

\* the fills an overlay paints with
RasterFills(ops) == { ops[i].color : i \in { j \in 1..Len(ops) : ops[j].op = "fillStyle" } }
VectorFills(els) == { els[i].fill : i \in { j \in 1..Len(els) : els[j].fill # "" } }

\* C5: in every exported artifact that contains a logo, the fill of the logo
\* background equals the light color of the base QR rendering in the same
\* artifact, in the raster and in the vector export.
C5_ThemeConsistentInExports ==
    /\ (lastSave.fmt \in {"png", "pdf"} /\ lastSave.png.base.gen # 0) =>
           RasterFills(lastSave.png.ops) \subseteq {lastSave.png.base.light}
    /\ lastSave.fmt = "svg" =>
           VectorFills(lastSave.els) \subseteq {lastSave.svg.light}

-----------------------------------------------------------------------------
(* Properties of the placement computations (checked under SpecGeom) *)

Computed == geomIn.path \in {"raster", "vector"}

\* positions of the calls / elements of one kind in the pass's output
OpsAt(name) == { i \in 1..Len(geomOut) : geomOut[i].op = name }
ElsAt(tag)  == { i \in 1..Len(geomOut) : geomOut[i].tag = tag }

First(S) == CHOOSE i \in S : \A j \in S : i <= j
Last(S)  == CHOOSE i \in S : \A j \in S : j <= i

\* where the logo image is drawn: the drawImage call, or the <image> element
ImageAt == IF geomIn.path = "raster" THEN First(OpsAt("drawImage")) ELSE First(ElsAt("image"))
LogoBox == geomOut[ImageAt]

\* right/bottom gap.
C7_Centered ==
    Computed =>
        /\ 100 * LogoBox.c = Px(geomIn.size) * geomIn.logoSize
        /\ LogoBox.d = LogoBox.c
        /\ LogoBox.a = LogoBox.b
        /\ 2 * LogoBox.a = Px(geomIn.size) - LogoBox.c
        /\ LogoBox.a = Px(geomIn.size) - (LogoBox.a + LogoBox.c)
        /\ LogoBox.b = Px(geomIn.size) - (LogoBox.b + LogoBox.d)

\* C7 witness: a fractional placement, 11% of 110 px = 12.1 px at 48.95 px.
C7_Witness ==
    /\ geomIn.path = "vector"
    /\ geomIn.size = 110
    /\ geomIn.logoSize = 11
    /\ LogoBox.c = 12100
    /\ LogoBox.a = 48950

\* the background shape of the pass: [kind, at (its position in the output),
\* and the rect's x, y, w, h or the circle's cx, cy, r]
Background ==
    IF geomIn.path = "raster"
    THEN IF OpsAt("fillRect") # {}
         THEN [kind |-> "rect", at |-> First(OpsAt("fillRect")),
               g |-> geomOut[First(OpsAt("fillRect"))]]
         ELSE [kind |-> "circle", at |-> First(OpsAt("fill")),
               g |-> geomOut[First(OpsAt("fill")) - 1]]
    ELSE IF ElsAt("rect") # {}
         THEN [kind |-> "rect", at |-> First(ElsAt("rect")),
               g |-> geomOut[First(ElsAt("rect"))]]
         ELSE [kind |-> "circle", at |-> First(ElsAt("circle")),
               g |-> geomOut[First(ElsAt("circle"))]]

\* the clip circle under which the image is drawn: [on, cx, cy, r]
NoClip == [on |-> FALSE, cx |-> 0, cy |-> 0, r |-> 0]
Clip ==
    IF geomIn.path = "raster"
    THEN IF /\ OpsAt("clip") # {}
            /\ First(OpsAt("clip")) < ImageAt
            /\ \A i \in OpsAt("restore") : i < First(OpsAt("clip")) \/ i > ImageAt
            /\ geomOut[First(OpsAt("clip")) - 1].op = "arc"
         THEN [on |-> TRUE,
               cx |-> geomOut[First(OpsAt("clip")) - 1].a,
               cy |-> geomOut[First(OpsAt("clip")) - 1].b,
               r  |-> geomOut[First(OpsAt("clip")) - 1].c]
         ELSE NoClip
    ELSE IF /\ LogoBox.clip = "url(#logoClip)"
            /\ \E i \in ElsAt("clipPath") : geomOut[i].clip = "logoClip"
         THEN LET i == First(ElsAt("clipPath"))
              IN  [on |-> TRUE, cx |-> geomOut[i].a, cy |-> geomOut[i].b, r |-> geomOut[i].c]
         ELSE NoClip

\* C8: in every compositing pass the background is drawn before (beneath) the
\* logo image and strictly contains the region the logo is drawn in: the rect
\* of side logoSizePixels + 2 * padding contains the logo square; the circle of
\* radius (logoSizePixels + 2 * padding) / 2 contains the clipped logo.
C8_BackgroundBeneathAndContaining ==
    Computed =>
        /\ Background.at < ImageAt
        /\ geomIn.path = "raster" =>
               /\ geomOut[1].op = "fillStyle"
               /\ geomOut[1].color = LightColor(geomIn.dark)
        /\ geomIn.path = "vector" => Background.g.fill = LightColor(geomIn.dark)
        /\ IF geomIn.shape = "square"
           THEN /\ Background.kind = "rect"
                /\ 10 * Background.g.c = 12 * LogoBox.c
                /\ Background.g.d = Background.g.c
                /\ Background.g.a < LogoBox.a
                /\ Background.g.b < LogoBox.b
                /\ Background.g.a + Background.g.c > LogoBox.a + LogoBox.c
                /\ Background.g.b + Background.g.d > LogoBox.b + LogoBox.d
           ELSE /\ Background.kind = "circle"
                /\ 10 * Background.g.c = 6 * LogoBox.c
                /\ Clip.on
                /\ Clip.cx = Background.g.a
                /\ Clip.cy = Background.g.b
                /\ Clip.r < Background.g.c

\* C8 witness: a square pass of the raster path and its padded background.
C8_Witness ==
    /\ geomIn.path = "raster"
    /\ geomIn.shape = "square"
    /\ geomIn.size = 300
    /\ geomIn.logoSize = 20
    /\ Background.g.a = 114000
    /\ Background.g.c = 72000

\* C9: with shape = rounded the logo image is drawn under a circular clip of
\* radius logoSizePixels / 2 centered on the logo, in the raster and in the
\* vector output; with shape = square no clip is applied (no save / clip call,
\* no clipPath definition or reference).
C9_ClipShapeExclusive ==
    Computed =>
        IF geomIn.shape = "rounded"
        THEN /\ Clip.on
             /\ 2 * Clip.r = LogoBox.c
             /\ 2 * Clip.cx = 2 * LogoBox.a + LogoBox.c
             /\ 2 * Clip.cy = 2 * LogoBox.b + LogoBox.d
             /\ geomIn.path = "raster" =>
                    /\ Cardinality(OpsAt("save")) = 1
                    /\ Cardinality(OpsAt("restore")) = 1
                    /\ First(OpsAt("save")) < First(OpsAt("clip"))
                    /\ First(OpsAt("restore")) > ImageAt
        ELSE /\ ~Clip.on
             /\ geomIn.path = "raster" =>
                    OpsAt("clip") \cup OpsAt("save") \cup OpsAt("restore") \cup OpsAt("arc") = {}
             /\ geomIn.path = "vector" =>
                    /\ ElsAt("clipPath") = {}
                    /\ \A i \in 1..Len(geomOut) : geomOut[i].clip = ""

\* C9 witness: a rounded pass of the vector path with its clipPath.
C9_Witness ==
    /\ geomIn.path = "vector"
    /\ geomIn.shape = "rounded"
    /\ geomIn.size = 400
    /\ geomIn.logoSize = 30
    /\ Clip.on
    /\ Clip.r = 60000

-----------------------------------------------------------------------------
(* Claims on the BatchGenerator (SpecBatch) *)

\* the grid documents in sight: the one under construction and the saved ones
GridDocuments ==
    (IF doc.kind = "pdf-grid" THEN {doc} ELSE {})
        \cup { batchSaves[k].content :
                 k \in { j \in 1..Len(batchSaves) : batchSaves[j].kind = "pdf-grid" } }

\* the addImage calls of a document, as <<page, position on the page>>
ImagesOf(d) ==
    { pk \in UNION { { <<p, k>> : k \in 1..Len(d.pages[p]) } : p \in 1..Len(d.pages) } :
        d.pages[pk[1]][pk[2]].op = "addImage" }

\* the grid cell an image was drawn in, read off its coordinates
ColumnOf(c) == (c.x - Mm(GridMargin)) \div CellWidth
RowOf(c) == (c.y - Mm(GridMargin)) \div CellHeight

\* C10: in a pdf-grid export the item of index i of the filtered collection is
\* drawn on page i div 6, in column i mod 2 and row (i mod 6) div 2, no two
\* items are drawn in the same (page, row, column) cell, and a saved document
\* holds each index of the filtered collection exactly once
C10_GridPaginationLaw ==
    /\ \A d \in GridDocuments :
         /\ \A pk \in ImagesOf(d) :
              LET c == d.pages[pk[1]][pk[2]]
              IN  /\ pk[1] - 1 = c.i \div 6
                  /\ ColumnOf(c) = c.i % 2
                  /\ RowOf(c) = (c.i % 6) \div 2
         /\ \A pk \in ImagesOf(d), ql \in ImagesOf(d) :
              LET c == d.pages[pk[1]][pk[2]]
                  e == d.pages[ql[1]][ql[2]]
              IN  (pk[1] = ql[1] /\ ColumnOf(c) = ColumnOf(e) /\ RowOf(c) = RowOf(e))
                      => pk = ql
    /\ \A k \in 1..Len(batchSaves) :
         batchSaves[k].kind = "pdf-grid" =>
            \A i \in 0..(Len(batchSaves[k].items) - 1) :
                /\ Cardinality({ pk \in ImagesOf(batchSaves[k].content) :
                       batchSaves[k].content.pages[pk[1]][pk[2]].i = i }) = 1
                /\ \A pk \in ImagesOf(batchSaves[k].content) :
                       batchSaves[k].content.pages[pk[1]][pk[2]].i = i =>
                          batchSaves[k].content.pages[pk[1]][pk[2]].data
                              = batchSaves[k].items[i + 1].text

\* a saved grid of seven items or more: the seventh opens the second page, in
\* its first cell
C10_Witness ==
    \E k \in 1..Len(batchSaves) :
        /\ batchSaves[k].kind = "pdf-grid"
        /\ Len(batchSaves[k].items) >= 7
        /\ Len(batchSaves[k].content.pages) >= 2
        /\ \E j \in 1..Len(batchSaves[k].content.pages[2]) :
              LET c == batchSaves[k].content.pages[2][j]
              IN  /\ c.op = "addImage"
                  /\ c.i = 6
                  /\ ColumnOf(c) = 0
                  /\ RowOf(c) = 0

\* ceil(n / 6)
CeilSixth(n) == (n + 5) \div 6

\* the images drawn on page p of a document
ImagesOn(d, p) == { pk \in ImagesOf(d) : pk[1] = p }

\* C11: while a pdf-grid export runs, the document has one page per started
\* block of six items (a page is appended exactly on reaching an index that
\* is a positive multiple of 6) and currentPage is the index of its last
\* page; a saved grid of n >= 1 items has ceil(n/6) pages, six items on each
\* page but the last, and n - 6*(ceil(n/6) - 1) items on the last
C11_GridPageCount ==
    /\ batch.pc = "grid-gen" =>
          /\ doc.kind = "pdf-grid"
          /\ Len(doc.pages) = (batch.i \div 6) + 1
          /\ currentPage = Len(doc.pages) - 1
    /\ doc.kind = "pdf-grid" => currentPage = Len(doc.pages) - 1
    /\ \A k \in 1..Len(batchSaves) :
          batchSaves[k].kind = "pdf-grid" =>
             LET n == Len(batchSaves[k].items)
                 d == batchSaves[k].content
             IN  /\ n >= 1
                 /\ Len(d.pages) = CeilSixth(n)
                 /\ \A p \in 1..(Len(d.pages) - 1) : Cardinality(ImagesOn(d, p)) = 6
                 /\ Cardinality(ImagesOn(d, Len(d.pages))) = n - 6 * (CeilSixth(n) - 1)

\* a saved grid of 13 items: 3 pages, one item on the third
C11_Witness ==
    \E k \in 1..Len(batchSaves) :
        /\ batchSaves[k].kind = "pdf-grid"
        /\ Len(batchSaves[k].items) = 13
        /\ Len(batchSaves[k].content.pages) = 3
        /\ Cardinality(ImagesOn(batchSaves[k].content, 3)) = 1

\* the positions of the running export
BatchRunning == batch.pc \in {"png-gen", "png-wait", "pages-gen", "grid-gen"}

\* every call drawn on a document
CallsOf(d) == UNION { { d.pages[p][k] : k \in 1..Len(d.pages[p]) } : p \in 1..Len(d.pages) }

\* C12: an export pass works on the items with a non-blank payload only, in
\* every mode: the pass's validItems are exactly the non-blank items of the
\* collection at the click, no blank item is encoded, saved as a file or drawn
\* on a page, blank items take no index (the indices drawn are those of
\* validItems), and no step of the pass changes batchItems
C12_BatchFiltering ==
    /\ [](/\ \A k \in 1..Len(batch.validItems) : ~IsBlank(batch.validItems[k].text)
          /\ BatchRunning => ~IsBlank(BatchItemAt.text)
          /\ \A k \in 1..Len(batchSaves) :
                /\ \A j \in 1..Len(batchSaves[k].items) :
                      ~IsBlank(batchSaves[k].items[j].text)
                /\ \A c \in CallsOf(batchSaves[k].content) :
                      /\ c.i < Len(batchSaves[k].items)
                      /\ c.op = "addImage" => ~IsBlank(c.data)
          /\ \A c \in CallsOf(doc) :
                c.op = "addImage" => ~IsBlank(c.data))
    /\ [][ /\ (batch.pc = "idle" /\ batch'.pc # "idle") =>
                /\ batch'.validItems = SelectSeq(batchItems, LAMBDA item : ~IsBlank(item.text))
                /\ batchItems' = batchItems
           /\ (BatchRunning /\ (batch' # batch \/ doc' # doc \/ batchSaves' # batchSaves)) =>
                batchItems' = batchItems ]_vars

\* a two-page document was saved from a collection of three items, one of
\* them blank and still in the collection
C12_Witness ==
    \E k \in 1..Len(batchSaves) :
        /\ batchSaves[k].kind = "pdf-pages"
        /\ Len(batchSaves[k].content.pages) = 2
        /\ Len(batchItems) = 3
        /\ \E j \in 1..3 : batchItems[j].text = BlankPayload
        /\ batch.pc = "idle"

\* C13: no two items of the collection have the same id
C13_IdsUnique ==
    \A i \in 1..Len(batchItems), j \in 1..Len(batchItems) :
        i # j => batchItems[i].id # batchItems[j].id

\* whether a written field holds the token "text" or "url" in any case
HoldsToken(v) ==
    \/ Includes(ToLowerCase(v), <<"t", "e", "x", "t">>)
    \/ Includes(ToLowerCase(v), <<"u", "r", "l">>)

\* the rows an import should yield: all but a first line holding a token
ExpectedRows(rows) ==
    IF rows # <<>> /\ (HoldsToken(rows[1].payload) \/ HoldsToken(rows[1].hint))
    THEN Tail(rows) ELSE rows

\* C14: after the import of a file of `payload,filenameHint` lines, plain,
\* padded with whitespace, quoted or both, separated by "\n" or "\r\n" with
\* or without blank lines between them, the collection holds one item per
\* line in the file's order, with the line's payload and filename hint, the
\* first line left out if and only if it holds "text" or "url" in any case
C14_DelimitedTextImport ==
    imported.read =>
        LET expected == ExpectedRows(csvCase.rows)
        IN  /\ Len(batchItems) = Len(expected)
            /\ \A k \in 1..Len(expected) :
                  /\ batchItems[k].text = expected[k].payload
                  /\ batchItems[k].filename = expected[k].hint

\* an upper-case header and two quoted, padded data lines with "\r\n" breaks
\* became exactly two items
C14_Witness ==
    /\ imported.read
    /\ Len(csvCase.rows) = 3
    /\ csvCase.rows[1].payload = <<"U", "R", "L">>
    /\ csvCase.style = "quoted-padded"
    /\ csvCase.brk = <<"\r", "\n">>
    /\ Len(batchItems) = 2
    /\ batchItems[1].text = csvCase.rows[2].payload
    /\ batchItems[2].filename = csvCase.rows[3].hint

\* the place of a grid image in reading order over pages, rows and columns,
\* counted from 1
CellNumber(page, c) == (page - 1) * 6 + RowOf(c) * 2 + ColumnOf(c) + 1

\* a pdf-pages document whose k-th page shows the k-th of the first n items
PagesInOrder(d, items, n) ==
    /\ Len(d.pages) >= n
    /\ \A k \in 1..n :
          /\ Cardinality(ImagesOn(d, k)) = 1
          /\ \A pk \in ImagesOn(d, k) : d.pages[pk[1]][pk[2]].data = items[k].text

\* a pdf-grid document whose k-th cell shows the k-th of the first n items
GridInOrder(d, items, n) ==
    /\ Cardinality(ImagesOf(d)) = n
    /\ \A pk \in ImagesOf(d) :
          LET c == d.pages[pk[1]][pk[2]]
          IN  /\ CellNumber(pk[1], c) \in 1..n
              /\ c.data = items[CellNumber(pk[1], c)].text

\* the last n saved files are the png files of the first n items, in order
PngsInOrder(items, n) ==
    /\ Len(batchSaves) >= n
    /\ \A k \in 1..n :
          LET f == batchSaves[Len(batchSaves) - n + k]
          IN  /\ f.kind = "png"
              /\ f.items = <<items[k]>>

\* C15: in each export mode the valid items are processed in their order in
\* the filtered collection: the k-th file saved of a png pass, the k-th page
\* of a pdf-pages document and the k-th cell of a pdf-grid document belong
\* to the k-th item of validItems, during the pass and in the saved document
C15_BatchOrdering ==
    /\ batch.pc = "png-gen"   => PngsInOrder(batch.validItems, batch.i)
    /\ batch.pc = "png-wait"  => PngsInOrder(batch.validItems, batch.i + 1)
    /\ batch.pc = "pages-gen" => PagesInOrder(doc, batch.validItems, batch.i)
    /\ batch.pc = "grid-gen"  => GridInOrder(doc, batch.validItems, batch.i)
    /\ \A k \in 1..Len(batchSaves) :
          /\ batchSaves[k].kind = "pdf-pages" =>
                /\ Len(batchSaves[k].content.pages) = Len(batchSaves[k].items)
                /\ PagesInOrder(batchSaves[k].content, batchSaves[k].items,
                                Len(batchSaves[k].items))
          /\ batchSaves[k].kind = "pdf-grid" =>
                GridInOrder(batchSaves[k].content, batchSaves[k].items,
                            Len(batchSaves[k].items))

\* the seventh png of a pass over seven different items has just been saved,
\* after the six before it
C15_Witness ==
    /\ batch.pc = "png-wait"
    /\ batch.i = 6
    /\ \A j \in 1..7, k \in 1..7 :
          j # k => batch.validItems[j].text # batch.validItems[k].text
    /\ Len(batchSaves) = 7
    /\ batchSaves[7].items = <<batch.validItems[7]>>

\* C16: a png pass is sequential: the in-progress flag is up exactly while a
\* downloadBatch call runs, so a call starts only when none is running; the
\* generation of the first item starts with the call, the generation of item
\* n+1 starts only out of the pacing delay that followed the save of item n,
\* and a save is followed by the delay
C16_SequentialPngExport ==
    /\ [](batchIsGenerating <=> batch.pc # "idle")
    /\ [][ /\ (batch'.pc = "png-gen" /\ batch' # batch) =>
                \/ /\ batch.pc = "idle"
                   /\ batch'.i = 0
                \/ /\ batch.pc = "png-wait"
                   /\ batch'.i = batch.i + 1
                   /\ batch'.validItems = batch.validItems
                   /\ batchSaves # <<>>
                   /\ batchSaves[Len(batchSaves)].items = <<batch.validItems[batch.i + 1]>>
                   /\ batchSaves' = batchSaves
           /\ (batch.pc \in {"png-gen", "png-wait"} /\ batchSaves' # batchSaves) =>
                /\ batch.pc = "png-gen"
                /\ batch'.pc = "png-wait"
                /\ batch'.i = batch.i
                /\ Len(batchSaves') = Len(batchSaves) + 1
                /\ batchSaves'[Len(batchSaves')].items = <<batch.validItems[batch.i + 1]>> ]_vars

\* the second item's generation has begun, after the first item's save and
\* the delay
C16_Witness ==
    /\ batch.pc = "png-gen"
    /\ batch.i = 1
    /\ batchIsGenerating
    /\ Len(batchSaves) = 1
    /\ batchSaves[1].items = <<batch.validItems[1]>>

\* the encoder rejects the item whose artifact the pass is generating
BatchFailing ==
    /\ batch.pc \in {"png-gen", "pages-gen", "grid-gen"}
    /\ EncoderRejects(BatchItemAt.text, BatchECL)

\* C17: when the generation of a valid item fails, the pass ends there: the
\* failure is logged by downloadBatch's catch, the in-progress flag returns
\* to false, no file is saved in that step or for any later item (the call is
\* over), and the files saved before stay; so no saved file, and no saved
\* document, holds an item the encoder rejects
C17_BatchAbortOnFailure ==
    /\ [][ BatchFailing =>
              /\ batch'.pc = "idle"
              /\ batchIsGenerating' = FALSE
              /\ batchSaves' = batchSaves
              /\ batchErrors' = IF batchErrors < MaxErrors THEN batchErrors + 1
                                ELSE batchErrors ]_vars
    /\ [](\A k \in 1..Len(batchSaves) :
             \A j \in 1..Len(batchSaves[k].items) :
                ~EncoderRejects(batchSaves[k].items[j].text, BatchECL))
    /\ [](batch.pc = "idle" => ~batchIsGenerating)

\* a png pass failed on its second item: the first item's file is saved, the
\* error is logged, the flag is down and the third item never got a file
C17_Witness ==
    /\ batch.pc = "idle"
    /\ ~batchIsGenerating
    /\ batchErrors = 1
    /\ Len(batchItems) = 3
    /\ EncoderRejects(batchItems[2].text, BatchECL)
    /\ ~EncoderRejects(batchItems[3].text, BatchECL)
    /\ Len(batchSaves) = 1
    /\ batchSaves[1].items = <<batchItems[1]>>

\* no item of the collection has a non-blank payload (or there is no item)
NothingToExport == \A k \in 1..Len(batchItems) : IsBlank(batchItems[k].text)

\* C18: file saves per export.  In a document mode nothing is saved before the
\* last item is drawn, and drawing the last item saves exactly one file, of
\* that mode, holding every valid item once; in png mode each generated item
\* saves exactly one file, the delay saves none, and the pass ends after the
\* file of the last valid item; with an empty or all-blank collection no
\* call starts, the flag stays down and nothing is saved
C18_SavesPerExport ==
    /\ [][ /\ (batch.pc \in {"pages-gen", "grid-gen"} /\ ~BatchFailing) =>
                IF batch.i + 1 = Len(batch.validItems)
                THEN /\ Len(batchSaves') = Len(batchSaves) + 1
                     /\ SubSeq(batchSaves', 1, Len(batchSaves)) = batchSaves
                     /\ LET f == batchSaves'[Len(batchSaves')]
                        IN  /\ f.kind = doc.kind
                            /\ f.items = batch.validItems
                            /\ Cardinality(ImagesOf(f.content)) = Len(batch.validItems)
                            /\ \A j \in 1..Len(batch.validItems) :
                                  \E pk \in ImagesOf(f.content) :
                                     f.content.pages[pk[1]][pk[2]].data
                                        = batch.validItems[j].text
                     /\ batch'.pc = "idle"
                ELSE /\ batchSaves' = batchSaves
                     /\ batch'.pc = batch.pc
           /\ (batch.pc = "png-gen" /\ ~BatchFailing) =>
                /\ Len(batchSaves') = Len(batchSaves) + 1
                /\ SubSeq(batchSaves', 1, Len(batchSaves)) = batchSaves
                /\ batchSaves'[Len(batchSaves')].kind = "png"
           /\ (batch.pc = "png-wait" /\ batch' # batch) =>
                /\ batchSaves' = batchSaves
                /\ batch'.pc = "idle" <=> batch.i + 1 = Len(batch.validItems)
           /\ batch.pc = "idle" =>
                /\ batchSaves' = batchSaves
                /\ NothingToExport => (batch'.pc = "idle" /\ ~batchIsGenerating') ]_vars
    /\ [](batch.pc = "png-wait" => PngsInOrder(batch.validItems, batch.i + 1))
    /\ [](batchIsGenerating => batch.validItems # <<>>)

\* one pdf-pages document of the three initial items is the only file saved
C18_Witness ==
    /\ batch.pc = "idle"
    /\ ~batchIsGenerating
    /\ Len(batchSaves) = 1
    /\ batchSaves[1].kind = "pdf-pages"
    /\ Len(batchSaves[1].items) = 3
    /\ Len(batchSaves[1].content.pages) = 3

\* C19: every failure in the course of a user-triggered action reaches that
\* action's handler: none is dropped
C19_FailuresCaught == dropped = {}

\* the generations whose logo failed to load
FailedLogoLoads == { f.n : f \in { g \in dropped : g.kind = "logo-load" } }

\* whether a surface shows the base of generation n without n's logo on it
BareBaseOf(raster, n) ==
    /\ raster.base # NoBase
    /\ raster.base.gen = n
    /\ \A k \in 1..Len(raster.painters) : raster.painters[k] # n

\* C20: after the logo of a generation failed to load, neither the drawing
\* surface nor the published raster artifact holds that generation's base QR
\* without its logo
C20_NoPartialArtifactOnLoadFailure ==
    \A n \in FailedLogoLoads :
        /\ ~BareBaseOf(canvas, n)
        /\ ~BareBaseOf(qrDataUrl, n)

-----------------------------------------------------------------------------
(* Further claims on the App (Spec) *)

\* the running generateQRCode call is one whose request the encoder rejected
GenFailing == gen.pc \in {"toCanvas", "toString", "finally"} /\ ~gen.ok

\* the part of C21 that holds, the failed call's own steps: a generation whose
\* request the encoder rejects goes from the rejected await to catch (one
\* console.error) and finally (isGenerating false); none of its steps changes
\* qrDataUrl or qrSvgString, it starts no logo load, and neither published
\* artifact ever describes its request
C21_EncodingFailure ==
    /\ [][ GenFailing =>
              /\ qrDataUrl' = qrDataUrl
              /\ qrSvgString' = qrSvgString
              /\ logoLoads' = logoLoads
              /\ lastPublish' = lastPublish
              /\ gen.pc = "toCanvas" =>
                    /\ gen'.pc = "finally"
                    /\ errors' = IF errors < MaxErrors THEN errors + 1 ELSE errors
              /\ gen.pc = "finally" =>
                    /\ gen'.pc = "idle"
                    /\ isGenerating' = FALSE ]_vars
    /\ [](GenFailing =>
              /\ gen.pc # "toString"
              /\ qrDataUrl.base.gen # gen.req.id
              /\ qrSvgString.gen # gen.req.id
              /\ lastPublish.gen # gen.req.id
              /\ \A r \in logoLoads : r.id # gen.req.id)
    /\ [](/\ qrDataUrl.base # NoBase =>
               ~EncoderRejects(qrDataUrl.base.text, qrDataUrl.base.ecl)
          /\ qrSvgString # NoBase =>
               ~EncoderRejects(qrSvgString.text, qrSvgString.ecl))

\* a rejected generation is in its finally; the artifacts published before it
\* are still there and describe one earlier request
C21_Witness ==
    /\ gen.pc = "finally"
    /\ ~gen.ok
    /\ errors = 1
    /\ qrDataUrl # EmptyUrl
    /\ qrDataUrl.base.gen = qrSvgString.gen
    /\ qrDataUrl.base.gen # gen.req.id
    /\ qrDataUrl.base.gen # 0

\* C21: when the encoder rejects a request, no artifact of the failed request
\* is published: neither artifact describes the request while its call runs;
\* qrDataUrl keeps its previous value, so what it holds after a rejection is
\* still a canvas with a QR rendering the encoder accepted, never the canvas
\* as the rejected call left it (resized, hence cleared); and once the call
\* has ended and no logo load is pending, qrDataUrl and qrSvgString describe
\* one and the same request
C21_NoArtifactOfFailedRequest ==
    /\ GenFailing =>
           /\ qrDataUrl.base.gen # gen.req.id
           /\ qrSvgString.gen # gen.req.id
           /\ lastPublish.gen # gen.req.id
    /\ (errors > 0 /\ qrDataUrl # EmptyUrl) =>
           /\ qrDataUrl.base # NoBase
           /\ ~EncoderRejects(qrDataUrl.base.text, qrDataUrl.base.ecl)
    /\ (errors > 0 /\ gen.pc = "idle" /\ logoLoads = {}
           /\ qrDataUrl # EmptyUrl /\ qrSvgString # NoBase) =>
           qrDataUrl.base.gen = qrSvgString.gen

\* C22: a user event that leaves the payload empty or whitespace-only (so
\* that any generateQRCode call it causes meets the blank check) changes
\* nothing of the generation: isGenerating is not set, no call is counted,
\* the canvas is not resized or redrawn, qrDataUrl and qrSvgString keep
\* their values, and nothing is logged
C22_BlankInputSkipped ==
    [][ (steps' = steps + 1 /\ Trim(options'.text) = <<>>) =>
           /\ isGenerating' = isGenerating
           /\ ~isGenerating'
           /\ gen'.pc = "idle"
           /\ genCount' = genCount
           /\ canvas' = canvas
           /\ qrDataUrl' = qrDataUrl
           /\ qrSvgString' = qrSvgString
           /\ lastPublish' = lastPublish
           /\ errors' = errors
           /\ logoLoads' = logoLoads ]_vars

\* the payload was blanked with auto-generate on: the effect called
\* generateQRCode, and the artifact of the generation before is untouched
C22_Witness ==
    /\ options.text = BlankPayload
    /\ autoGenerate
    /\ steps = 1
    /\ gen.pc = "idle"
    /\ ~isGenerating
    /\ genCount = 1
    /\ qrDataUrl # EmptyUrl
    /\ canvas = qrDataUrl
    /\ errors = 0

-----------------------------------------------------------------------------
(* Further properties of the placement computations (SpecGeom) *)

OpsIn(ops, name) == { i \in 1..Len(ops) : ops[i].op = name }
ElsIn(els, tag)  == { i \in 1..Len(els) : els[i].tag = tag }

\* what a placement amounts to: the logo box, the background shape with its
\* geometry and fill, and the clip circle
Placement(box, bgKind, bg, fill, clipOn, clip) ==
    [ x |-> box[1], y |-> box[2], w |-> box[3], h |-> box[4],
      bgKind |-> bgKind, bg |-> bg, fill |-> fill,
      clipOn |-> clipOn, clip |-> clip ]

\* the placement drawn by a sequence of ctx calls: the fillStyle in force, the
\* arc that is filled or the fillRect, the arc that is clipped, the drawImage
RasterPlacement(ops) ==
    LET img  == ops[First(OpsIn(ops, "drawImage"))]
        rect == OpsIn(ops, "fillRect")
        fill == OpsIn(ops, "fill")
        clip == OpsIn(ops, "clip")
    IN  Placement(<<img.a, img.b, img.c, img.d>>,
                  IF rect # {} THEN "rect" ELSE "circle",
                  IF rect # {}
                  THEN <<ops[First(rect)].a, ops[First(rect)].b,
                         ops[First(rect)].c, ops[First(rect)].d>>
                  ELSE <<ops[First(fill) - 1].a, ops[First(fill) - 1].b,
                         ops[First(fill) - 1].c>>,
                  ops[Last(OpsIn(ops, "fillStyle"))].color,
                  clip # {},
                  IF clip # {}
                  THEN <<ops[First(clip) - 1].a, ops[First(clip) - 1].b,
                         ops[First(clip) - 1].c>>
                  ELSE <<>>)

\* the placement written as markup: the <rect> or the <circle> with its fill,
\* the <clipPath> circle the image refers to, the <image>
VectorPlacement(els) ==
    LET img  == els[First(ElsIn(els, "image"))]
        rect == ElsIn(els, "rect")
        circ == ElsIn(els, "circle")
        clip == { i \in ElsIn(els, "clipPath") : img.clip = "url(#logoClip)" }
        bg   == IF rect # {} THEN els[First(rect)] ELSE els[First(circ)]
    IN  Placement(<<img.a, img.b, img.c, img.d>>,
                  IF rect # {} THEN "rect" ELSE "circle",
                  IF rect # {} THEN <<bg.a, bg.b, bg.c, bg.d>> ELSE <<bg.a, bg.b, bg.c>>,
                  bg.fill,
                  clip # {},
                  IF clip # {}
                  THEN <<els[First(clip)].a, els[First(clip)].b, els[First(clip)].c>>
                  ELSE <<>>)

\* C23: for every size, logo size ratio, shape and theme the raster path and
\* the vector path place the logo alike: the same logo origin and size, the
\* same background shape and geometry (circle center and radius, or rect
\* origin and side), the same clip circle and the same background fill
C23_RasterVectorParity ==
    Computed =>
        LET raster == IF geomIn.path = "raster" THEN geomOut
                      ELSE RasterOverlay(geomIn.size, geomIn.logoSize,
                                         geomIn.shape, geomIn.dark)
            vector == IF geomIn.path = "vector" THEN geomOut
                      ELSE VectorOverlay(geomIn.size, geomIn.logoSize,
                                         geomIn.shape, geomIn.dark)
        IN  RasterPlacement(raster) = VectorPlacement(vector)

\* a rounded placement in the dark theme, written as markup: 20% of 300 px,
\* background circle of radius 36 px at the centre, clip circle of radius 30
C23_Witness ==
    /\ geomIn.path = "vector"
    /\ geomIn.shape = "rounded"
    /\ geomIn.dark
    /\ geomIn.size = 300
    /\ geomIn.logoSize = 20
    /\ VectorPlacement(geomOut) =
          Placement(<<120000, 120000, 60000, 60000>>, "circle",
                    <<150000, 150000, 36000>>, "#1f2937",
                    TRUE, <<150000, 150000, 30000>>)

-----------------------------------------------------------------------------
(* Further claims on the App's drawing surface (Spec) *)

\* ctx.save() calls not yet matched by ctx.restore() after a sequence of calls
RECURSIVE SaveDepth(_)
SaveDepth(ops) ==
    IF ops = <<>> THEN 0
    ELSE SaveDepth(SubSeq(ops, 1, Len(ops) - 1))
           + (IF ops[Len(ops)].op = "save" THEN 1
              ELSE IF ops[Len(ops)].op = "restore" THEN -1 ELSE 0)

\* whether a clip is in force after a sequence of calls
ClipActive(ops) ==
    \E i \in OpsIn(ops, "clip") : \A j \in OpsIn(ops, "restore") : j < i

\* every clip of a sequence of calls is scoped to one drawImage:
\* save, beginPath, arc, clip, drawImage, restore
ClipScoped(ops) ==
    /\ \A i \in OpsIn(ops, "save") :
          /\ i + 5 <= Len(ops)
          /\ ops[i + 1].op = "beginPath"
          /\ ops[i + 2].op = "arc"
          /\ ops[i + 3].op = "clip"
          /\ ops[i + 4].op = "drawImage"
          /\ ops[i + 5].op = "restore"
    /\ \A i \in OpsIn(ops, "clip") : i > 3 /\ ops[i - 3].op = "save"
    /\ \A i \in OpsIn(ops, "restore") : i > 5 /\ ops[i - 5].op = "save"
    /\ \A i \in 1..Len(ops) : SaveDepth(SubSeq(ops, 1, i)) \in {0, 1}

\* C24: on the drawing surface and in every published artifact each clip is
\* acquired (save, clip) right before the logo image is drawn and released
\* (restore) right after; whenever a task ends, so whenever the next base QR
\* is drawn or the artifact is encoded, the save/restore depth is zero and no
\* clip is in force, after any number of compositing passes
C24_ClipScoping ==
    /\ ClipScoped(canvas.ops)
    /\ SaveDepth(canvas.ops) = 0
    /\ ~ClipActive(canvas.ops)
    /\ ClipScoped(qrDataUrl.ops)
    /\ SaveDepth(qrDataUrl.ops) = 0
    /\ ~ClipActive(qrDataUrl.ops)

\* two compositing passes with a rounded logo have drawn on one surface
C24_Witness ==
    /\ Len(canvas.painters) = 2
    /\ Cardinality(OpsIn(canvas.ops, "clip")) = 2
    /\ Cardinality(OpsIn(canvas.ops, "restore")) = 2
    /\ qrDataUrl = canvas

-----------------------------------------------------------------------------
(* Further claims on the App's downloads (Spec) *)

\* C25: a saved svg file with a logo is the base document with the
\* background element and then the logo element(s) right before its closing
\* </svg>: what precedes the tag in the base precedes the insertion,
\* unchanged and in order, and what follows the tag in the base (the final
\* line feed) is all that follows it in the file
C25_VectorInsertion ==
    (lastSave.fmt = "svg" /\ lastSave.els # <<>>) =>
        LET base == SvgText(lastSave.svg)
            file == lastSave.doc
            n    == Len(lastSave.els)
        IN  /\ Len(file) = Len(base) + n
            /\ \E k \in 1..Len(base) :
                  /\ base[k].tag = "/svg"
                  /\ \A i \in 1..(k - 1) : file[i] = base[i] /\ base[i].tag # "/svg"
                  /\ \A j \in 1..n : file[k - 1 + j] = lastSave.els[j]
                  /\ \A i \in k..Len(base) : file[i + n] = base[i]
            /\ lastSave.els[1].tag \in {"circle", "rect"}
            /\ lastSave.els[1].fill # ""
            /\ lastSave.els[n].tag = "image"
            /\ \A j \in 2..(n - 1) : lastSave.els[j].tag = "clipPath"

\* a saved svg with a rounded logo: background circle, clipPath and image sit
\* between the module path and </svg>
C25_Witness ==
    /\ lastSave.fmt = "svg"
    /\ Len(lastSave.doc) = 8
    /\ lastSave.doc[3].tag = "path"
    /\ lastSave.doc[4].tag = "circle"
    /\ lastSave.doc[5].tag = "clipPath"
    /\ lastSave.doc[6].tag = "image"
    /\ lastSave.doc[7].tag = "/svg"

\* C26: an svg download with a logo saves nothing within the download
\* action; its one save happens when the logo has loaded, outside any user
\* action, holds the logo elements and consumes the pending load, so no
\* download saves twice; a load that fails saves nothing; without a logo the
\* file is saved within the download action itself
C26_SvgSaveStep ==
    (lastSave' # lastSave /\ lastSave'.fmt = "svg") =>
        IF lastSave'.opts.logoFile # NoFile
        THEN /\ ~lastSave'.sync
             /\ steps' = steps
             /\ lastSave'.opts.logoFile = LogoFile
             /\ \E d \in svgLoads :
                   /\ d.dl = lastSave'.dl
                   /\ svgLoads' = svgLoads \ {d}
                   /\ \A e \in svgLoads : e.dl = d.dl => e = d
             /\ lastSave'.els # <<>>
             /\ lastSave'.els[Len(lastSave'.els)].tag = "image"
             /\ \E i \in 1..Len(lastSave'.doc) : lastSave'.doc[i].tag = "image"
        ELSE /\ lastSave'.sync
             /\ steps' = steps + 1
             /\ lastSave'.dl = steps'
             /\ selectedFormat = "svg"
             /\ svgLoads' = svgLoads
             /\ lastSave'.els = <<>>

C26_SvgLoadStep ==
    /\ (svgLoads' # svgLoads /\ svgLoads \subseteq svgLoads') =>
            /\ lastSave' = lastSave
            /\ steps' = steps + 1
            /\ \E d \in svgLoads' \ svgLoads :
                  /\ d.dl = steps'
                  /\ d.opts.logoFile # NoFile
                  /\ svgLoads' = svgLoads \cup {d}
    /\ (\E d \in svgLoads : d \notin svgLoads' /\ d.opts.logoFile # LogoFile) =>
            lastSave' = lastSave

C26_SaveAfterLoad ==
    /\ [][C26_SvgSaveStep /\ C26_SvgLoadStep]_vars
    /\ [](\A d \in svgLoads : lastSave.dl # d.dl /\ d.dl <= steps)

\* an svg with a logo was saved by the load of the download that was the
\* third user event (upload, format, download)
C26_Witness ==
    /\ lastSave.fmt = "svg"
    /\ lastSave.opts.logoFile = LogoFile
    /\ ~lastSave.sync
    /\ lastSave.dl = 3
    /\ lastSave.els # <<>>
    /\ svgLoads = {}

-----------------------------------------------------------------------------
(* Further claims on the BatchGenerator (SpecBatch) *)

\* the images drawn on a page
PageImages(page) == SelectSeq(page, LAMBDA c : c.op = "addImage")

\* page k of the document holds item k of the list and nothing of another item
OnePerPage(pages, items, k) ==
    /\ Len(PageImages(pages[k])) = 1
    /\ PageImages(pages[k])[1].data = items[k].text
    /\ \A c \in 1..Len(pages[k]) : pages[k][c].i = k - 1

\* C27: in pdf-pages the first valid item is drawn on the document's initial
\* page and every further item on a page added for it: a saved document of n
\* items has n pages and page i holds item i and no other; while the export
\* runs, the items done so far each have their page and the current item's
\* page is there and empty
C27_OnePerPage ==
    /\ \A f \in 1..Len(batchSaves) :
          batchSaves[f].kind = "pdf-pages" =>
             /\ Len(batchSaves[f].content.pages) = Len(batchSaves[f].items)
             /\ \A k \in 1..Len(batchSaves[f].items) :
                   OnePerPage(batchSaves[f].content.pages, batchSaves[f].items, k)
    /\ batch.pc = "pages-gen" =>
          /\ Len(doc.pages) = batch.i + 1
          /\ doc.pages[batch.i + 1] = <<>>
          /\ \A k \in 1..batch.i : OnePerPage(doc.pages, batch.validItems, k)

\* a saved pdf-pages document whose third page holds the third item's image
C27_Witness ==
    /\ Len(batchSaves) = 1
    /\ batchSaves[1].kind = "pdf-pages"
    /\ Len(batchSaves[1].content.pages) = 3
    /\ PageImages(batchSaves[1].content.pages[1])[1].data = batchSaves[1].items[1].text
    /\ PageImages(batchSaves[1].content.pages[3])[1].data = batchSaves[1].items[3].text
    /\ batchSaves[1].items[3].text # batchSaves[1].items[1].text

-----------------------------------------------------------------------------
(* Termination of the in-progress flags (SpecLive) *)

\* C28: whenever a generation of the App has set isGenerating, the flag is
\* false again later, and likewise batchIsGenerating for every batch export:
\* after the last item, and after a failure of the encoder
C28_FlagReleased ==
    /\ isGenerating ~> ~isGenerating
    /\ batchIsGenerating ~> ~batchIsGenerating

\* the flag is down again after a second generation, which failed
C28_Witness ==
    /\ ~isGenerating
    /\ gen.pc = "idle"
    /\ genCount = 2
    /\ errors = 1
    /\ steps = 1

-----------------------------------------------------------------------------
(* Snapshot and frame of the BatchGenerator (SpecBatch) *)

\* the click takes the valid items of the list as it is then
C29_SnapshotTaken ==
    (batch.pc = "idle" /\ batch'.pc # "idle") =>
        batch'.validItems = ValidItems(batchItems)

\* nothing replaces the snapshot while the export runs, whatever happens to
\* the list
C29_SnapshotKept ==
    (batch.pc # "idle" /\ batch'.pc # "idle") =>
        /\ batch'.validItems = batch.validItems
        /\ batch'.i \in {batch.i, batch.i + 1}

\* a file saved by the export is of the snapshot: a png of the snapshot's
\* item at the loop index, a document of all the snapshot's items
C29_SavedFromSnapshot ==
    (batchSaves' # batchSaves) =>
        /\ batch.pc # "idle"
        /\ Len(batchSaves') = Len(batchSaves) + 1
        /\ SubSeq(batchSaves', 1, Len(batchSaves)) = batchSaves
        /\ LET f == batchSaves'[Len(batchSaves')]
           IN  IF f.kind = "png"
               THEN f.items = <<batch.validItems[batch.i + 1]>>
               ELSE f.items = batch.validItems

\* C29: a batch export works on the list of valid items it took at the click:
\* edits, adds, removes and imports made while it waits between two png
\* files change the list but not the snapshot, and every file saved is of the
\* snapshot
C29_ExportSnapshot ==
    [][C29_SnapshotTaken /\ C29_SnapshotKept /\ C29_SavedFromSnapshot]_vars

\* the second png was saved from the snapshot after the list had been changed
\* at that position during the wait
C29_Witness ==
    /\ batch.pc = "png-wait"
    /\ batch.i = 1
    /\ Len(batchSaves) = 2
    /\ batchSaves[2].items = <<batch.validItems[2]>>
    /\ \/ Len(ValidItems(batchItems)) < 2
       \/ ValidItems(batchItems)[2] # batch.validItems[2]

\* the positions at which two lists of one length differ
ChangedRows(old, new) == { k \in 1..Len(old) : new[k] # old[k] }

\* new is old without its row k
WithoutRow(old, new, k) ==
    new = SubSeq(old, 1, k - 1) \o SubSeq(old, k + 1, Len(old))

\* an import that completes replaces the list by the file's items, none of
\* them with an empty payload
C30_ImportReplaces ==
    \A csv \in CsvFiles :
        (HandleCSVUpload(csv) /\ CsvLines(csv) # <<>>) =>
            LET data == DataLines(CsvLines(csv))
                kept == { i \in 1..Len(data) : CsvFields(data[i])[1] # <<>> }
            IN  /\ Len(batchItems') = Cardinality(kept)
                /\ \A k \in 1..Len(batchItems') :
                      /\ batchItems'[k].text # <<>>
                      /\ \E i \in kept : /\ batchItems'[k].text = CsvFields(data[i])[1]
                                         /\ batchItems'[k].id - (i - 1) \in now..now'
                                         /\ Cardinality({ j \in kept : j < i }) = k - 1

\* an edit changes one row, in the edited field only
C30_UpdateFrame ==
    \A id \in EditIds :
        (\/ \E value \in TypedTexts : UpdateBatchItem(id, "text", value)
         \/ \E value \in TypedNames : UpdateBatchItem(id, "filename", value)) =>
            /\ Len(batchItems') = Len(batchItems)
            /\ Cardinality(ChangedRows(batchItems, batchItems')) = 1
            /\ \A k \in 1..Len(batchItems) :
                  /\ batchItems'[k].id = batchItems[k].id
                  /\ k \in ChangedRows(batchItems, batchItems') => batchItems[k].id = id

\* a removal takes one row out and keeps the others as they are, in order
C30_RemoveFrame ==
    \A id \in EditIds :
        RemoveBatchItem(id) =>
            \E k \in 1..Len(batchItems) :
                batchItems[k].id = id /\ WithoutRow(batchItems, batchItems', k)

\* C30: after an import that completes, the list is exactly the imported
\* items (the previous ones replaced), none with an empty payload; editing or
\* removing an item changes that one item only and keeps the ids and the
\* relative order of all the others
C30_ImportAndEditFrame ==
    [][C30_ImportReplaces /\ C30_UpdateFrame /\ C30_RemoveFrame]_vars

\* the import's part of C30 on its own
C30_ImportPart == [][C30_ImportReplaces]_vars

\* the edits' part of C30 for items whose id no other item has
C30_EditPartUniqueIds ==
    [][(\A i, j \in 1..Len(batchItems) :
            batchItems[i].id = batchItems[j].id => i = j)
        => (C30_UpdateFrame /\ C30_RemoveFrame)]_vars

====
